---------------------------- MODULE Spec2Model ----------------------------
(***************************************************************************)
(* LwPRINTF: the directive interpreter (prv_format), its two output        *)
(* functions (direct print through the sink, bounded buffer writer), the   *)
(* padding emitter, the integer converters and the per-instance mutex      *)
(* wrapper, modelled from src/lwprintf/src/lwprintf/lwprintf.c.            *)
(*                                                                         *)
(* Characters are their ASCII codes, strings are sequences of codes        *)
(* without the terminating null; the null byte is NUL.                     *)
(***************************************************************************)
EXTENDS Integers, Sequences, FiniteSets, TLC

(***************************************************************************)
(* Characters                                                              *)
(***************************************************************************)
Alphabet ==
    << " ", "!", "\"", "#", "$", "%", "&", "'", "(", ")", "*", "+", ",", "-", ".", "/",
       "0", "1", "2", "3", "4", "5", "6", "7", "8", "9", ":", ";", "<", "=", ">", "?",
       "@", "A", "B", "C", "D", "E", "F", "G", "H", "I", "J", "K", "L", "M", "N", "O",
       "P", "Q", "R", "S", "T", "U", "V", "W", "X", "Y", "Z", "[", "\\", "]", "^", "_",
       "grave", "a", "b", "c", "d", "e", "f", "g", "h", "i", "j", "k", "l", "m", "n", "o",
       "p", "q", "r", "s", "t", "u", "v", "w", "x", "y", "z", "{", "|", "}", "~" >>

\* ASCII code of a one-character string
Chr(s) ==
    31 + (CHOOSE i \in 1..Len(Alphabet) : Alphabet[i] = s)

\* a tuple of one-character strings as a C string (sequence of codes)
Str(t) ==
    [i \in 1..Len(t) |-> Chr(t[i])]

NUL ==
    0

CHARISNUM(x) ==
    x >= Chr("0") /\ x <= Chr("9")

CHARTONUM(x) ==
    x - Chr("0")

IsUpper(x) ==
    x >= Chr("A") /\ x <= Chr("Z")

Rep(c, n) ==
    [i \in 1..(IF n > 0 THEN n ELSE 0) |-> c]

Min(a, b) ==
    IF a < b THEN a ELSE b

RECURSIVE Pow2(_)
Pow2(n) ==
    IF n = 0 THEN 1 ELSE 2 * Pow2(n - 1)

(***************************************************************************)
(* Widths of the C types, scaled so that every value fits 32-bit integers;  *)
(* arithmetic of an unsigned type of w bits is taken % 2^w.                *)
(***************************************************************************)
CharBits ==
    8

ShortBits ==
    16

IntBits ==
    20

LongBits ==
    24

LongLongBits ==
    28

SizeBits ==
    20

SIZE_MAX ==
    Pow2(SizeBits) - 1

\* size_t subtraction a - b
SizeSub(a, b) ==
    (a - b) % Pow2(SizeBits)

\* conversion of a signed value to the unsigned type of the given width
ToUnsigned(v, bits) ==
    v % Pow2(bits)

\* conversion of v to the signed type of the given width
ToSigned(v, bits) ==
    IF ToUnsigned(v, bits) >= Pow2(bits - 1) THEN ToUnsigned(v, bits) - Pow2(bits)
    ELSE ToUnsigned(v, bits)

(***************************************************************************)
(* Format state, lwprintf_int_t.m: reset on every '%'                      *)
(***************************************************************************)
ZeroFlags ==
    [left_align |-> 0, plus |-> 0, space |-> 0, zero |-> 0, thousands |-> 0,
     alt |-> 0, precision |-> 0, longlong |-> 0, char_short |-> 0, sz_t |-> 0,
     umax_t |-> 0, uc |-> 0, is_negative |-> 0, is_num_zero |-> 0]

\* memset(&lwi->m, 0x00, sizeof(lwi->m))
ZeroM ==
    [flags |-> ZeroFlags, precision |-> 0, width |-> 0, base |-> 0, type |-> 0]

(***************************************************************************)
(* Padding emitter.  A converter step yields the format state it leaves    *)
(* and the characters it hands to out_fn, in order.                        *)
(***************************************************************************)
\* SignOrSpace that emits the space of the space flag in every field
SignOrSpace_space_always(m, spaceok) ==
    IF m.flags.is_negative = 1 THEN << Chr("-") >>
    ELSE IF m.flags.plus = 1 THEN << Chr("+") >>
    ELSE IF m.flags.space = 1 THEN << Chr(" ") >>
    ELSE << >>

SignOrSpace(m, spaceok) ==
    IF m.flags.is_negative = 1 THEN << Chr("-") >>
    ELSE IF m.flags.plus = 1 THEN << Chr("+") >>
    ELSE IF m.flags.space = 1 /\ spaceok THEN << Chr(" ") >>
    ELSE << >>

\* AltPrefix that does not look at is_num_zero
AltPrefix_for_zero_too(m) ==
    IF m.flags.alt = 1
    THEN IF m.base = 8 THEN << Chr("0") >>
         ELSE IF m.base = 16 THEN << Chr("0"), IF m.flags.uc = 1 THEN Chr("X") ELSE Chr("x") >>
         ELSE IF m.base = 2 THEN << Chr("0"), IF m.flags.uc = 1 THEN Chr("B") ELSE Chr("b") >>
         ELSE << >>
    ELSE << >>

AltPrefix(m) ==
    IF m.flags.alt = 1 /\ m.flags.is_num_zero = 0
    THEN IF m.base = 8 THEN << Chr("0") >>
         ELSE IF m.base = 16 THEN << Chr("0"), IF m.flags.uc = 1 THEN Chr("X") ELSE Chr("x") >>
         ELSE IF m.base = 2 THEN << Chr("0"), IF m.flags.uc = 1 THEN Chr("B") ELSE Chr("b") >>
         ELSE << >>
    ELSE << >>

\* prv_out_str_before that emits the sign of a zero-filled field after the fill
prv_out_str_before_sign_after_fill(m, buff_size) ==
    LET w1 == IF m.width > 0 /\ (m.flags.is_negative = 1 \/ m.flags.plus = 1)
              THEN m.width - 1 ELSE m.width
        w2 == IF m.flags.alt = 1 /\ m.flags.is_num_zero = 0
              THEN IF m.base = 8 THEN (IF w1 > 0 THEN w1 - 1 ELSE w1)
                   ELSE IF m.base = 16 \/ m.base = 2 THEN (IF w1 >= 2 THEN w1 - 2 ELSE 0)
                   ELSE w1
              ELSE w1
        pad == IF m.flags.left_align = 0 /\ w2 > 0
               THEN Rep(IF m.flags.zero = 1 THEN Chr("0") ELSE Chr(" "), w2 - buff_size)
               ELSE << >>
    IN [m |-> [m EXCEPT !.width = w2],
        out |-> AltPrefix(m) \o pad \o SignOrSpace(m, m.flags.zero = 1 \/ buff_size >= w2)]

prv_out_str_before(m, buff_size) ==
    LET w1 == IF m.width > 0 /\ (m.flags.is_negative = 1 \/ m.flags.plus = 1)
              THEN m.width - 1 ELSE m.width
        w2 == IF m.flags.alt = 1 /\ m.flags.is_num_zero = 0
              THEN IF m.base = 8 THEN (IF w1 > 0 THEN w1 - 1 ELSE w1)
                   ELSE IF m.base = 16 \/ m.base = 2 THEN (IF w1 >= 2 THEN w1 - 2 ELSE 0)
                   ELSE w1
              ELSE w1
        sign0 == IF m.flags.zero = 1 THEN SignOrSpace(m, TRUE) ELSE << >>
        pad == IF m.flags.left_align = 0 /\ w2 > 0
               THEN Rep(IF m.flags.zero = 1 THEN Chr("0") ELSE Chr(" "), w2 - buff_size)
               ELSE << >>
        sign1 == IF m.flags.zero = 0 THEN SignOrSpace(m, buff_size >= w2) ELSE << >>
    IN [m |-> [m EXCEPT !.width = w2], out |-> sign0 \o AltPrefix(m) \o pad \o sign1]

prv_out_str_after(m, buff_size) ==
    [m |-> m,
     out |-> IF m.flags.left_align = 1 THEN Rep(Chr(" "), m.width - buff_size) ELSE << >>]

prv_out_str_raw(buff, buff_size) ==
    SubSeq(buff, 1, buff_size)

\* the post-phase after the pre-phase b and the characters body
ThenAfter(b, body, buff_size) ==
    [m |-> b.m, out |-> b.out \o body \o prv_out_str_after(b.m, buff_size).out]

\* pre-phase, the characters body, post-phase
Padded(m, body, buff_size) ==
    ThenAfter(prv_out_str_before(m, buff_size), body, buff_size)

prv_out_str(m, buff, buff_size) ==
    Padded(m, prv_out_str_raw(buff, buff_size), buff_size)

(***************************************************************************)
(* Integer converter, OUTPUT_ANY_INT_TYPE(ttype, num) for a ttype of the   *)
(* given number of bits                                                    *)
(***************************************************************************)
RECURSIVE DigitsCnt(_, _)
DigitsCnt(den, base) ==
    IF den > 0 THEN 1 + DigitsCnt(den \div base, base) ELSE 0

\* the divisor loop with the test (num / den) > base
RECURSIVE Divisor_one_short(_, _, _, _)
Divisor_one_short(num, den, base, bits) ==
    IF (num \div den) > base
    THEN Divisor_one_short(num, (den * base) % Pow2(bits), base, bits)
    ELSE den

RECURSIVE Divisor(_, _, _, _)
Divisor(num, den, base, bits) ==
    IF (num \div den) >= base THEN Divisor(num, (den * base) % Pow2(bits), base, bits) ELSE den

DigitChr(digit, uc) ==
    digit + (IF digit >= 10 THEN (IF uc = 1 THEN Chr("A") ELSE Chr("a")) - 10 ELSE Chr("0"))

RECURSIVE Digits(_, _, _, _)
Digits(num, den, base, uc) ==
    IF den > 0
    THEN << DigitChr(num \div den, uc) >> \o Digits(num % den, den \div base, base, uc)
    ELSE << >>

\* the two branches of the macro, is_num_zero being set in mz
OutputInt(mz, num, bits) ==
    IF num = 0
    THEN Padded(mz, << Chr("0") >>, 1)
    ELSE Padded(mz, Digits(num, Divisor(num, 1, mz.base, bits), mz.base, mz.flags.uc),
                DigitsCnt(num, mz.base) % 256)

OUTPUT_ANY_INT_TYPE(m, num, bits) ==
    OutputInt([m EXCEPT !.flags.is_num_zero = IF num = 0 THEN 1 ELSE 0], num, bits)

\* what (nnum) = -(nnum) of SIGNED_CHECK_NEGATIVE leaves for a negative
\* number of the signed type of the given width.  The negation of the most
\* negative value overflows the signed type, which is undefined: a build
\* wraps it to the same value, or traps
Negations(num, bits) ==
    IF num = -Pow2(bits - 1)
    THEN {[trap |-> FALSE, v |-> num], [trap |-> TRUE, v |-> 0]}
    ELSE {[trap |-> FALSE, v |-> -num]}

\* SIGNED_CHECK_NEGATIVE whose negation leaves the value neg, then the call
\* of the unsigned converter of the same width
SignedToStrAs(m, num, bits, neg) ==
    OUTPUT_ANY_INT_TYPE(IF num < 0 THEN [m EXCEPT !.flags.is_negative = 1] ELSE m,
                        ToUnsigned(IF num < 0 THEN neg ELSE num, bits), bits)

\* prv_signed_int_to_str, prv_signed_long_int_to_str and
\* prv_signed_longlong_int_to_str of a number above the most negative value
\* of the type, whose negation is defined
SignedToStr(m, num, bits) ==
    SignedToStrAs(m, num, bits, -num)

(***************************************************************************)
(* Directive interpreter: one directive, from its '%' to its type letter.  *)
(* f is the template, an index into it is 1-based, the byte after the      *)
(* last one is the terminating null.  The variable arguments are the       *)
(* sequence args, ai counts the arguments already pulled by va_arg.  The   *)
(* parser state st is [m, pos, ai].                                        *)
(***************************************************************************)
At(f, p) ==
    IF p <= Len(f) THEN f[p] ELSE NUL

FlagChars ==
    {Chr("-"), Chr("+"), Chr(" "), Chr("0"), Chr("'"), Chr("#")}

SetFlag(m, c) ==
    IF c = Chr("-") THEN [m EXCEPT !.flags.left_align = 1]
    ELSE IF c = Chr("+") THEN [m EXCEPT !.flags.plus = 1]
    ELSE IF c = Chr(" ") THEN [m EXCEPT !.flags.space = 1]
    ELSE IF c = Chr("0") THEN [m EXCEPT !.flags.zero = 1]
    ELSE IF c = Chr("'") THEN [m EXCEPT !.flags.thousands = 1]
    ELSE [m EXCEPT !.flags.alt = 1]

\* [flags]
RECURSIVE ParseFlags(_, _)
ParseFlags(f, st) ==
    IF At(f, st.pos) \in FlagChars
    THEN ParseFlags(f, [st EXCEPT !.m = SetFlag(@, At(f, st.pos)), !.pos = @ + 1])
    ELSE st

\* the loop of prv_parse_num in a build where an int that overflows wraps
RECURSIVE ParseNumFrom(_, _, _)
ParseNumFrom(f, p, num) ==
    IF CHARISNUM(At(f, p))
    THEN ParseNumFrom(f, p + 1, ToSigned(10 * num + CHARTONUM(At(f, p)), IntBits))
    ELSE [num |-> num, pos |-> p]

\* 10 * num + CHARTONUM(*fmt) leaves the range of int at some digit of the
\* number at index p, which is undefined
RECURSIVE ParseNumOverflows(_, _, _)
ParseNumOverflows(f, p, num) ==
    /\ CHARISNUM(At(f, p))
    /\ \/ 10 * num + CHARTONUM(At(f, p)) >= Pow2(IntBits - 1)
       \/ ParseNumOverflows(f, p + 1, ToSigned(10 * num + CHARTONUM(At(f, p)), IntBits))

prv_parse_num(f, p) ==
    ParseNumFrom(f, p, 0)

\* width from the template: n is what prv_parse_num yields
WidthInFormat(st, n) ==
    [st EXCEPT !.m.width = n.num, !.pos = n.pos]

\* width from the arguments
WidthInArgs(st, w) ==
    [st EXCEPT !.m.flags.left_align = IF w < 0 THEN 1 ELSE @,
               !.m.width = IF w < 0 THEN -w ELSE w,
               !.pos = @ + 1, !.ai = @ + 1]

\* [width]
ParseWidth(f, args, st) ==
    IF CHARISNUM(At(f, st.pos)) THEN WidthInFormat(st, prv_parse_num(f, st.pos))
    ELSE IF At(f, st.pos) = Chr("*") THEN WidthInArgs(st, args[st.ai + 1])
    ELSE [st EXCEPT !.m.width = 0]

PrecisionInFormat(st, n) ==
    [st EXCEPT !.m.flags.precision = 1, !.m.precision = n.num, !.pos = n.pos]

PrecisionInArgs(st, pr) ==
    [st EXCEPT !.m.flags.precision = 1, !.m.precision = IF pr > 0 THEN pr ELSE 0,
               !.pos = @ + 2, !.ai = @ + 1]

\* [.precision]
ParsePrecision(f, args, st) ==
    IF At(f, st.pos) = Chr(".")
    THEN IF At(f, st.pos + 1) = Chr("*") THEN PrecisionInArgs(st, args[st.ai + 1])
         ELSE IF CHARISNUM(At(f, st.pos + 1))
         THEN PrecisionInFormat(st, prv_parse_num(f, st.pos + 1))
         ELSE [st EXCEPT !.m.flags.precision = 1, !.m.precision = 0, !.pos = @ + 1]
    ELSE [st EXCEPT !.m.precision = 0]

\* [length]: c and c1 are the byte at the position and the byte after it
LengthSwitch(st, c, c1) ==
    IF c = Chr("h")
    THEN IF c1 = Chr("h")
         THEN [st EXCEPT !.m.flags.char_short = 2, !.pos = @ + 2]
         ELSE [st EXCEPT !.m.flags.char_short = 1, !.pos = @ + 1]
    ELSE IF c = Chr("l")
    THEN IF c1 = Chr("l")
         THEN [st EXCEPT !.m.flags.longlong = 2, !.pos = @ + 2]
         ELSE [st EXCEPT !.m.flags.longlong = 1, !.pos = @ + 1]
    ELSE IF c = Chr("z") THEN [st EXCEPT !.m.flags.sz_t = 1, !.pos = @ + 1]
    ELSE IF c = Chr("j") THEN [st EXCEPT !.m.flags.umax_t = 1, !.pos = @ + 1]
    ELSE st

ParseLength(f, st) ==
    LengthSwitch(st, At(f, st.pos), At(f, st.pos + 1))

\* type letters whose converters are outside this module
OtherTypes ==
    {Chr("p"), Chr("n"), Chr("k"), Chr("K")}

\* case 'd', 'i': the width of the argument type chosen by the length flags
SignedBits(m) ==
    IF m.flags.longlong = 0 THEN IntBits
    ELSE IF m.flags.longlong = 1 THEN LongBits
    ELSE LongLongBits

ConvSigned(m, num) ==
    SignedToStr([m EXCEPT !.base = 10], num, SignedBits(m))

\* case 'b', 'B', 'o', 'u', 'x', 'X'
BaseOf(c) ==
    IF c = Chr("b") \/ c = Chr("B") THEN 2
    ELSE IF c = Chr("o") THEN 8
    ELSE IF c = Chr("u") THEN 10
    ELSE 16

\* the width of the converter chosen by the length flags
UnsignedBits(m) ==
    IF m.flags.sz_t = 1 THEN SizeBits
    ELSE IF m.flags.umax_t = 1 THEN LongLongBits
    ELSE IF m.flags.longlong = 0 \/ m.base = 2 THEN IntBits
    ELSE IF m.flags.longlong = 1 THEN LongBits
    ELSE LongLongBits

\* the argument as the converter receives it
UnsignedArg(m, num) ==
    IF m.flags.sz_t = 0 /\ m.flags.umax_t = 0 /\ (m.flags.longlong = 0 \/ m.base = 2)
    THEN IF m.flags.char_short = 2 THEN ToUnsigned(num, CharBits)
         ELSE IF m.flags.char_short = 1 THEN ToUnsigned(num, ShortBits)
         ELSE ToUnsigned(num, IntBits)
    ELSE ToUnsigned(num, UnsignedBits(m))

UnsignedToStr(mb, num) ==
    OUTPUT_ANY_INT_TYPE(mb, UnsignedArg(mb, num), UnsignedBits(mb))

ConvUnsigned(m, c, num) ==
    UnsignedToStr([m EXCEPT !.base = BaseOf(c), !.flags.space = 0], num)

strnlen(b, maxlen) ==
    Min(Len(b), maxlen)

\* case 's': buffnull is (lwi->buff == NULL)
ConvString(m, b, buffnull, buff_size) ==
    prv_out_str(m, b,
                strnlen(b, IF m.flags.precision = 1 THEN m.precision
                           ELSE IF ~buffnull THEN buff_size ELSE SIZE_MAX))

(***************************************************************************)
(* Floating-point converter, in the build with the engineering types.  A   *)
(* double is a record [cls, neg, mant, e]: cls is "nan", "inf" (beyond     *)
(* DBL_MAX in magnitude) or "fin", and a finite one has the field bias and *)
(* the value (-1)^neg * (mant * 10^e + bias * 0.000000000000005).  The     *)
(* arithmetic on finite values is exact.                                   *)
(***************************************************************************)
\* LWPRINTF_ARRAYSIZE(powers_of_10) in the build without long long, where
\* float_long_t is a long of 32 bits and the table ends with 1E09
PowersOf10Size ==
    10

RECURSIVE Pow10(_)
Pow10(n) ==
    IF n = 0 THEN 1 ELSE 10 * Pow10(n - 1)

powers_of_10(i) ==
    Pow10(i)

LWPRINTF_CFG_FLOAT_DEFAULT_PRECISION ==
    6

\* the digits of n, most significant first; none for 0
RECURSIVE DecStr(_)
DecStr(n) ==
    IF n > 0 THEN DecStr(n \div 10) \o << Chr("0") + (n % 10) >> ELSE << >>

\* the decimal exponent of the magnitude of d, 0 for zero
ExpOf(d) ==
    IF d.mant = 0 THEN 0 ELSE DigitsCnt(d.mant, 10) - 1 + d.e

\* the magnitude of d is above 10^k
DblAbove(d, k) ==
    /\ d.mant # 0
    /\ \/ ExpOf(d) > k
       \/ ExpOf(d) = k /\ d.mant # Pow10(DigitsCnt(d.mant, 10) - 1)

\* the two normalisation loops: the magnitude scaled into [1, 10).  A
\* distance of 0.000000000000005 below mant * 10^e grows when the number is
\* multiplied and shrinks to nothing that matters when it is divided
Normalised(d) ==
    IF d.mant = 0 THEN d
    ELSE [d EXCEPT !.e = 1 - DigitsCnt(d.mant, 10),
                   !.bias = IF @ = 0 \/ ExpOf(d) > 0 THEN 0
                            ELSE IF ExpOf(d) = 0 THEN -1 ELSE -2]

\* integer_part and decimal_part of mant * 10^e at precision p, with twice
\* the remainder below the last digit kept and the unit it is counted in
ExactSplit(d, p) ==
    IF d.e >= 0
    THEN [integer_part |-> d.mant * Pow10(d.e), decimal_part |-> 0, rem2 |-> 0, unit |-> 1]
    ELSE IF p >= -d.e
    THEN [integer_part |-> d.mant \div Pow10(-d.e),
          decimal_part |-> (d.mant % Pow10(-d.e)) * powers_of_10(p + d.e),
          rem2 |-> 0, unit |-> 1]
    ELSE [integer_part |-> d.mant \div Pow10(-d.e),
          decimal_part |-> (d.mant % Pow10(-d.e)) \div Pow10(-d.e - p),
          rem2 |-> 2 * ((d.mant % Pow10(-d.e)) % Pow10(-d.e - p)),
          unit |-> Pow10(-d.e - p)]

\* integer_part, decimal_part and the comparison of diff with 0.5 for the
\* number x + s * t at precision p, where t is a distance below the last
\* decimal place of every value explored, also when scaled by 10^p: with
\* s > 0 a tie of x becomes diff > 0.5, with s = 0 it is diff == 0.5, and
\* with s < 0 a number that has no digit after the precision is truncated
\* to the digit below and has a diff close to 1
SplitAt(x, s, p) ==
    IF s < 0 /\ x.rem2 = 0
    THEN [integer_part |-> IF x.decimal_part = 0 THEN x.integer_part - 1 ELSE x.integer_part,
          decimal_part |-> IF x.decimal_part = 0 THEN powers_of_10(p) - 1
                           ELSE x.decimal_part - 1,
          up |-> TRUE, tie |-> FALSE]
    ELSE [integer_part |-> x.integer_part, decimal_part |-> x.decimal_part,
          up |-> x.rem2 > x.unit \/ (x.rem2 = x.unit /\ s > 0),
          tie |-> x.rem2 = x.unit /\ s = 0]

\* num += 0.000000000000005 and the split of the sum: the number d stands
\* -d.bias times 0.000000000000005 below mant * 10^e
SplitDbl(d, p) ==
    SplitAt(ExactSplit(d, p), d.bias + 1, p)

\* rounding check of the last digit
RoundDbl(r, p) ==
    IF r.up
    THEN IF r.decimal_part + 1 >= powers_of_10(p)
         THEN [integer_part |-> r.integer_part + 1, decimal_part |-> 0]
         ELSE [integer_part |-> r.integer_part, decimal_part |-> r.decimal_part + 1]
    ELSE IF r.tie
    THEN IF r.decimal_part = 0
         THEN [integer_part |-> r.integer_part + 1, decimal_part |-> 0]
         ELSE [integer_part |-> r.integer_part, decimal_part |-> r.decimal_part + 1]
    ELSE [integer_part |-> r.integer_part, decimal_part |-> r.decimal_part]

\* the loop that counts the useful decimal digits for g
RECURSIVE UsefulDigits(_, _, _, _)
UsefulDigits(tmp, i, adder, p) ==
    IF tmp > 0 \/ i < p
    THEN (IF adder = 1 \/ (tmp % 10) > 0 THEN 1 ELSE 0)
         + UsefulDigits(tmp \div 10, i + 1, IF adder = 1 \/ (tmp % 10) > 0 THEN 1 ELSE 0, p)
    ELSE 0

\* float_num_t after the rounding r
FloatNum(r, p, type) ==
    [integer_part |-> r.integer_part, decimal_part |-> r.decimal_part,
     digits_cnt_integer_part |-> IF r.integer_part = 0 THEN 1 ELSE DigitsCnt(r.integer_part, 10),
     digits_cnt_decimal_part |-> p,
     digits_cnt_decimal_part_useful |->
         IF type = Chr("g") THEN UsefulDigits(r.decimal_part, 0, 0, p) ELSE p]

\* prv_calculate_dbl_num_data once lwi->m.precision is within the table
CalcAt(m, num, type) ==
    [m |-> m, n |-> FloatNum(RoundDbl(SplitDbl(num, m.precision), m.precision), m.precision, type)]

\* the index prv_calculate_dbl_num_data reads powers_of_10 with: the
\* precision, limited from above
TableIndex(m) ==
    IF m.precision >= PowersOf10Size THEN PowersOf10Size - 1 ELSE m.precision

prv_calculate_dbl_num_data(m, num, type) ==
    CalcAt([m EXCEPT !.precision = TableIndex(m)], num, type)

\* prv_double_to_str of a finite number up to the normalisation: the switch
\* to the type e of a number above FLOAT_MAX_B_ENG, SIGNED_CHECK_NEGATIVE and
\* the exponent
DblStart(m, d, big) ==
    [m |-> [m EXCEPT !.type = IF m.type # Chr("g") /\ (big \/ m.type = Chr("e"))
                               THEN Chr("e") ELSE @,
                     !.flags.is_negative = IF d.neg /\ d.mant # 0 THEN 1 ELSE @],
     def_type |-> IF big /\ m.type # Chr("g") THEN Chr("e") ELSE m.type,
     orig_num |-> d,
     in_num |-> IF big \/ m.type \in {Chr("e"), Chr("g")} THEN Normalised(d) ELSE d,
     exp_cnt |-> IF big \/ m.type \in {Chr("e"), Chr("g")} THEN ExpOf(d) ELSE 0,
     chosen_precision |-> m.precision]

\* check precision data
DblPrecision(s) ==
    IF s.m.precision >= PowersOf10Size
    THEN [s EXCEPT !.m.precision = PowersOf10Size - 1]
    ELSE IF s.m.flags.precision = 0
    THEN [s EXCEPT !.m.precision = LWPRINTF_CFG_FLOAT_DEFAULT_PRECISION,
                   !.chosen_precision = LWPRINTF_CFG_FLOAT_DEFAULT_PRECISION]
    ELSE IF s.m.precision = 0 /\ s.def_type = Chr("g")
    THEN [s EXCEPT !.m.precision = 1]
    ELSE s

\* the decision for g without the lower bound -4 of the exponent
DblStyle_no_lower_bound(s) ==
    IF s.def_type # Chr("g") THEN s
    ELSE IF s.exp_cnt < s.m.precision
    THEN [s EXCEPT !.m.precision = IF @ > s.exp_cnt THEN @ - (s.exp_cnt + 1) ELSE 0,
                   !.chosen_precision = IF s.m.precision > s.exp_cnt
                                        THEN @ - (s.exp_cnt + 1) ELSE 0,
                   !.m.type = Chr("f"),
                   !.in_num = s.orig_num]
    ELSE [s EXCEPT !.m.precision = IF @ > 0 THEN @ - 1 ELSE @,
                   !.chosen_precision = IF s.m.precision > 0 THEN @ - 1 ELSE @,
                   !.m.type = Chr("e")]

\* type g: the decision between the styles f and e.  The first call of
\* prv_calculate_dbl_num_data leaves nothing behind for g: its float_num_t
\* is overwritten whole by the second call, also the integer_part that the
\* conversion of a number beyond float_long_t leaves undefined, and the
\* precision is already within the table.
DblStyle(s) ==
    IF s.def_type # Chr("g") THEN s
    ELSE IF s.exp_cnt >= -4 /\ s.exp_cnt < s.m.precision
    THEN [s EXCEPT !.m.precision = IF @ > s.exp_cnt THEN @ - (s.exp_cnt + 1) ELSE 0,
                   !.chosen_precision = IF s.m.precision > s.exp_cnt
                                        THEN @ - (s.exp_cnt + 1) ELSE 0,
                   !.m.type = Chr("f"),
                   !.in_num = s.orig_num]
    ELSE [s EXCEPT !.m.precision = IF @ > 0 THEN @ - 1 ELSE @,
                   !.chosen_precision = IF s.m.precision > 0 THEN @ - 1 ELSE @,
                   !.m.type = Chr("e")]

\* the number prv_calculate_dbl_num_data is called with for the output
DblCalcArg(s) ==
    IF s.def_type = Chr("g") \/ s.def_type = Chr("e") THEN s.in_num ELSE s.orig_num

\* number of digits to display
DblDigitsCnt(s, n) ==
    n.digits_cnt_integer_part
    + (IF s.def_type = Chr("g") /\ s.m.precision > 0
       THEN n.digits_cnt_decimal_part_useful
            + (IF n.digits_cnt_decimal_part_useful > 0 THEN 1 ELSE 0)
       ELSE IF s.chosen_precision > 0 /\ s.m.flags.precision = 1
       THEN s.chosen_precision + 1 ELSE 0)
    + (IF s.m.type = Chr("e")
       THEN 4 + (IF s.exp_cnt >= 100 \/ s.exp_cnt <= -100 THEN 1 ELSE 0) ELSE 0)

IntegerPartOut(n) ==
    IF n.integer_part = 0 THEN << Chr("0") >> ELSE DecStr(n.integer_part)

\* the decimal part for g: ds are the digits of decimal_part, z the leading
\* zeros emitted
DecimalPartG(n, ds, z) ==
    Rep(Chr("0"), z)
    \o SubSeq(ds, 1, IF n.digits_cnt_decimal_part_useful - z >= 1
                     THEN Min(Len(ds), n.digits_cnt_decimal_part_useful - z)
                     ELSE Len(ds))

\* the decimal part for f and e: leading zeros, digits, ending zeros
DecimalPartF(s, ds) ==
    Rep(Chr("0"), s.m.precision - Len(ds))
    \o ds
    \o Rep(Chr("0"), s.chosen_precision
                     - (IF Len(ds) > s.m.precision THEN Len(ds) ELSE s.m.precision))

DecimalPartOut(s, n, ds) ==
    IF s.m.precision > 0
    THEN (IF n.digits_cnt_decimal_part_useful > 0 THEN << Chr(".") >> ELSE << >>)
         \o (IF s.def_type = Chr("g")
             THEN DecimalPartG(n, ds,
                      IF s.m.precision - Len(ds) > 0
                      THEN Min(s.m.precision - Len(ds), n.digits_cnt_decimal_part_useful)
                      ELSE 0)
             ELSE DecimalPartF(s, ds))
    ELSE << >>

\* the exponent part: x is the magnitude of exp_cnt
ExponentDigits(x) ==
    IF x >= 100
    THEN << Chr("0") + (x \div 100), Chr("0") + ((x \div 100) \div 10),
            Chr("0") + ((x \div 100) % 10) >>
    ELSE << Chr("0") + (x \div 10), Chr("0") + (x % 10) >>

ExponentOut(s) ==
    IF s.m.type = Chr("e")
    THEN << IF s.m.flags.uc = 1 THEN Chr("E") ELSE Chr("e"),
            IF s.exp_cnt >= 0 THEN Chr("+") ELSE Chr("-") >>
         \o ExponentDigits(IF s.exp_cnt < 0 THEN -s.exp_cnt ELSE s.exp_cnt)
    ELSE << >>

\* output strings
DblOut(s, n) ==
    Padded(s.m,
           IntegerPartOut(n) \o DecimalPartOut(s, n, DecStr(n.decimal_part))
               \o ExponentOut(s),
           DblDigitsCnt(s, n))

\* the output with the format state c.m and the float_num_t c.n that
\* prv_calculate_dbl_num_data leaves
DblWith(s, c) ==
    DblOut([s EXCEPT !.m = c.m], c.n)

DblCalc(s) ==
    DblWith(s, prv_calculate_dbl_num_data(s.m, DblCalcArg(s), s.def_type))

\* the indices the calls of prv_calculate_dbl_num_data read powers_of_10
\* with, s being the state after the check of the precision data: one call
\* for every type and for g a second one after the decision of the style
DblReads(s) ==
    {TableIndex(s.m)}
    \cup (IF s.def_type = Chr("g") THEN {TableIndex(DblStyle(s).m)} ELSE {})

\* the corner case of a number above DBL_MAX
InfStr(m) ==
    (IF m.flags.plus = 1 THEN << Chr("+") >> ELSE << >>)
    \o (IF m.flags.uc = 1 THEN Str(<< "I", "N", "F" >>) ELSE Str(<< "i", "n", "f" >>))

prv_double_to_str(m, in_num) ==
    IF in_num.cls = "nan"
    THEN prv_out_str(m, IF m.flags.uc = 1 THEN Str(<< "N", "A", "N" >>)
                        ELSE Str(<< "n", "a", "n" >>), 3)
    ELSE IF in_num.cls = "inf" /\ in_num.neg
    THEN prv_out_str(m, IF m.flags.uc = 1 THEN Str(<< "-", "I", "N", "F" >>)
                        ELSE Str(<< "-", "i", "n", "f" >>), 4)
    ELSE IF in_num.cls = "inf"
    THEN prv_out_str(m, InfStr(m), IF m.flags.plus = 1 THEN 4 ELSE 3)
    ELSE DblCalc(DblStyle(DblPrecision(
             DblStart(m, in_num, DblAbove(in_num, PowersOf10Size - 1)))))

\* what a case of the switch yields: the converter result r and the number
\* of arguments pulled so far
Pulled(r, ai) ==
    [m |-> r.m, ai |-> ai, out |-> r.out]

\* the switch on the type letter c; arg is the next argument
TypeSwitch(c, m, arg, ai, buffnull, buff_size) ==
    IF c = Chr("a") \/ c = Chr("A")
    THEN [m |-> m, ai |-> ai + 1, out |-> Str(<< "N", "a", "N" >>)]
    ELSE IF c = Chr("c")
    THEN [m |-> m, ai |-> ai + 1, out |-> << arg % Pow2(CharBits) >>]
    ELSE IF c = Chr("d") \/ c = Chr("i")
    THEN Pulled(ConvSigned(m, arg), ai + 1)
    ELSE IF c \in {Chr("b"), Chr("B"), Chr("o"), Chr("u"), Chr("x"), Chr("X")}
    THEN Pulled(ConvUnsigned(m, c, arg), ai + 1)
    ELSE IF c = Chr("s")
    THEN Pulled(ConvString(m, arg, buffnull, buff_size), ai + 1)
    ELSE IF c = Chr("%")
    THEN [m |-> m, ai |-> ai, out |-> << Chr("%") >>]
    ELSE IF c \in {Chr("f"), Chr("F"), Chr("e"), Chr("E"), Chr("g"), Chr("G")}
    THEN Pulled(prv_double_to_str(m, arg), ai + 1)
    ELSE IF c \in OtherTypes
    THEN CHOOSE r \in {} : TRUE
    ELSE [m |-> m, ai |-> ai, out |-> << c >>]

\* lwi->m.type and the uppercase flag for the type letter c
TypeOf(m, c) ==
    [m EXCEPT !.type = (c + IF IsUpper(c) THEN 32 ELSE 0) % 256,
              !.flags.uc = IF IsUpper(c) THEN 1 ELSE @]

ConvType(f, args, st, buffnull, buff_size) ==
    TypeSwitch(At(f, st.pos), TypeOf(st.m, At(f, st.pos)), args[st.ai + 1], st.ai,
               buffnull, buff_size)

\* the ++fmt that ends the iteration, after the converter result cv
EndDirective(st, cv) ==
    [m |-> cv.m, pos |-> st.pos + 1, ai |-> cv.ai, out |-> cv.out]

ConvAt(f, args, st, buffnull, buff_size) ==
    EndDirective(st, ConvType(f, args, st, buffnull, buff_size))

\* One iteration of the while loop of prv_format at a '%' at index p: m0 is
\* the format state after the reset.  Yields the format state left behind,
\* the position after the directive, the arguments pulled and the characters
\* handed to out_fn.
Directive(f, p, args, ai, m0, buffnull, buff_size) ==
    ConvAt(f, args,
           ParseLength(f, ParsePrecision(f, args, ParseWidth(f, args,
               ParseFlags(f, [m |-> m0, pos |-> p + 1, ai |-> ai])))),
           buffnull, buff_size)

\* the iteration without the memset of the format state at the '%'
Iteration_no_reset(f, p, args, ai, m, buffnull, buff_size) ==
    IF At(f, p) # Chr("%")
    THEN [m |-> m, pos |-> p + 1, ai |-> ai, out |-> << At(f, p) >>]
    ELSE Directive(f, p, args, ai, m, buffnull, buff_size)

\* One iteration of the while loop of prv_format: a literal byte or a directive
Iteration(f, p, args, ai, m, buffnull, buff_size) ==
    IF At(f, p) # Chr("%")
    THEN [m |-> m, pos |-> p + 1, ai |-> ai, out |-> << At(f, p) >>]
    ELSE Directive(f, p, args, ai, ZeroM, buffnull, buff_size)

\* All characters prv_format hands to out_fn before the terminating null,
\* when nothing cancels the loop
RECURSIVE FormatFrom(_, _, _, _, _, _, _)
RECURSIVE FormatAfter(_, _, _, _, _)
FormatAfter(it, f, args, buffnull, buff_size) ==
    it.out \o FormatFrom(f, it.pos, args, it.ai, it.m, buffnull, buff_size)

FormatFrom(f, p, args, ai, m, buffnull, buff_size) ==
    IF At(f, p) = NUL
    THEN << >>
    ELSE FormatAfter(Iteration(f, p, args, ai, m, buffnull, buff_size), f, args,
                     buffnull, buff_size)

\* The indices of the template at which the condition of the while loop of
\* prv_format reads a byte, from index p on.  The terminating null is at
\* index Len(f) + 1; what a read beyond it finds is undefined, and the
\* sequence ends with it.  FormatFrom is applied to templates that end
\* outside of a directive, where the loop reads no such index.
RECURSIVE LoopReads(_, _, _, _, _)
LoopReads(f, p, args, ai, m) ==
    IF p > Len(f) + 1 \/ At(f, p) = NUL
    THEN << p >>
    ELSE << p >> \o LoopReads(f, Iteration(f, p, args, ai, m, TRUE, 0).pos, args,
                              Iteration(f, p, args, ai, m, TRUE, 0).ai,
                              Iteration(f, p, args, ai, m, TRUE, 0).m)

(***************************************************************************)
(* Output functions                                                        *)
(***************************************************************************)
\* IS_PRINT_MODE that takes every session with an output function for a
\* print session
IS_PRINT_MODE_any(l) ==
    l.out_fn # "none"

IS_PRINT_MODE(l) ==
    l.out_fn = "prv_out_fn_print"

\* prv_out_fn_print without the check of the cancel flag on entry
prv_out_fn_print_no_latch(l, chr, resp) ==
    LET l1 == IF resp = 0 THEN [l EXCEPT !.is_print_cancelled = 1] ELSE l
        l2 == IF chr # NUL /\ l1.is_print_cancelled = 0
              THEN [l1 EXCEPT !.n_len = @ + 1] ELSE l1
    IN [lwi |-> l2, ret |-> 1, called |-> TRUE]

\* prv_out_fn_print that counts the byte whatever the sink answered
prv_out_fn_print_counts_all(l, chr, resp) ==
    IF l.is_print_cancelled = 1
    THEN [lwi |-> l, ret |-> 0, called |-> FALSE]
    ELSE LET l1 == IF resp = 0 THEN [l EXCEPT !.is_print_cancelled = 1] ELSE l
             l2 == IF chr # NUL THEN [l1 EXCEPT !.n_len = @ + 1] ELSE l1
         IN [lwi |-> l2, ret |-> 1, called |-> TRUE]

\* prv_out_fn_print: resp is what the sink returns when it is invoked.
\* called tells whether the sink was invoked.
prv_out_fn_print(l, chr, resp) ==
    IF l.is_print_cancelled = 1
    THEN [lwi |-> l, ret |-> 0, called |-> FALSE]
    ELSE LET l1 == IF resp = 0 THEN [l EXCEPT !.is_print_cancelled = 1] ELSE l
             l2 == IF chr # NUL /\ l1.is_print_cancelled = 0
                   THEN [l1 EXCEPT !.n_len = @ + 1] ELSE l1
         IN [lwi |-> l2, ret |-> 1, called |-> TRUE]

\* prv_out_fn_write_buff that compares with buff_size instead of buff_size - 1
prv_out_fn_write_buff_off_by_one(l, chr) ==
    IF l.n_len < l.buff_size
    THEN IF chr # NUL
         THEN [lwi |-> [l EXCEPT !.n_len = @ + 1], ret |-> 1,
               wr |-> << << l.n_len, chr >>, << l.n_len + 1, NUL >> >>]
         ELSE [lwi |-> l, ret |-> 1, wr |-> << << l.n_len, chr >> >>]
    ELSE [lwi |-> l, ret |-> 0, wr |-> << >>]

\* prv_out_fn_write_buff: wr is the sequence of stores <<index, byte>> made
\* through lwi->buff
prv_out_fn_write_buff(l, chr) ==
    IF l.n_len < SizeSub(l.buff_size, 1)
    THEN IF chr # NUL
         THEN [lwi |-> [l EXCEPT !.n_len = @ + 1], ret |-> 1,
               wr |-> << << l.n_len, chr >>, << l.n_len + 1, NUL >> >>]
         ELSE [lwi |-> l, ret |-> 1, wr |-> << << l.n_len, chr >> >>]
    ELSE [lwi |-> l, ret |-> 0, wr |-> << >>]

(***************************************************************************)
(* The program state                                                       *)
(***************************************************************************)
\* calling threads; each makes one call of the library
Threads ==
    {1, 2}

\* the default instance (handle NULL) and one instance owned by the caller
Instances ==
    {"lwprintf_default", "user"}

Handles ==
    {"NULL", "user"}

LWPRINTF_GET_LWOBJ(ptr) ==
    IF ptr # "NULL" THEN ptr ELSE "lwprintf_default"

NoOwner ==
    0

\* number of bytes of the array behind a non-null buffer pointer
MemSize ==
    8

\* capacities passed as n_maxlen
Capacities ==
    {0, 1, 2, 3, MemSize}

\* calls of lwprintf_init_ex explored
MaxInits ==
    2

\* templates and argument lists of the calls explored
Cases ==
    << [fmt |-> << >>, args |-> << >>],
       [fmt |-> Str(<< "t", "e", "s", "t" >>), args |-> << >>],
       [fmt |-> Str(<< "%", "3", "s" >>), args |-> << Str(<< "a", "b", "c", "d", "e" >>) >>],
       [fmt |-> Str(<< "a", "%", "c", "b" >>), args |-> << 0 >>],
       [fmt |-> Str(<< "%", "-", "3", "d", "|" >>), args |-> << -7 >>],
       [fmt |-> Str(<< "x" >>), args |-> << >>] >>

\* the cases explored in two calls that overlap in time
ConcCases ==
    {Len(Cases)}

VARIABLES cfg, lwobj, ninits, api, pc, lwi, ret, mem, slog, g, conv

vars ==
    << cfg, lwobj, ninits, api, pc, lwi, ret, mem, slog, g, conv >>

\* build configurations: LWPRINTF_CFG_OS, LWPRINTF_CFG_OS_MANUAL_PROTECT
Configs ==
    {[os |-> 0, manual |-> 0], [os |-> 1, manual |-> 0], [os |-> 1, manual |-> 1]}

\* lwprintf_int_t of a thread that is not in a call
NoLwi ==
    [h |-> "NULL", c |-> 0, lwobj |-> "lwprintf_default", fmt |-> << >>, args |-> << >>,
     pos |-> 1, ai |-> 0, buffnull |-> TRUE, buff_size |-> 0, n_len |-> 0,
     out_fn |-> "none", is_print_cancelled |-> 0, m |-> ZeroM, pend |-> << >>, ok |-> 1]

\* what a call did, for the properties: mutex validations, successful waits,
\* failed waits, releases, stores through the buffer pointer, stores at an
\* index >= capacity, and the owner of the instance mutex when the call began
NoG ==
    [valids |-> 0, waits |-> 0, failed |-> 0, releases |-> 0, stores |-> 0, oob |-> FALSE,
     held_by |-> NoOwner]

\* calls of lwprintf_protect_ex and lwprintf_unprotect_ex explored
MaxProtects ==
    2

\* the last call of lwprintf_init_ex, lwprintf_protect_ex or
\* lwprintf_unprotect_ex: the function, the calling thread (0: the
\* application before its threads run), the instance, the value returned,
\* what lwprintf_sys_mutex_create did in it; n counts the calls of protect
\* and unprotect.  The record is kept until a thread begins a print or a
\* buffer call.
NoApi ==
    [op |-> "none", t |-> 0, o |-> "lwprintf_default", ret |-> 0, create |-> "none",
     n |-> 0]

\* no conversion under study: see ConvInit
NoConv ==
    [in |-> [fam |-> "none"], out |-> << >>, done |-> FALSE, trap |-> FALSE, reads |-> {}]

\* the state before lwprintf_init_ex, in a given build
InitIn(c) ==
    /\ cfg = c
    /\ api = NoApi
    /\ lwobj = [o \in Instances |-> [out_fn |-> "NULL", mutex |-> [valid |-> FALSE, owner |-> NoOwner]]]
    /\ ninits = 0
    /\ pc = [t \in Threads |-> "idle"]
    /\ lwi = [t \in Threads |-> NoLwi]
    /\ ret = [t \in Threads |-> 0]
    /\ mem = [t \in Threads |-> [i \in 0..(MemSize - 1) |-> NUL]]
    /\ slog = [o \in Instances |-> << >>]
    /\ g = [t \in Threads |-> NoG]

Init ==
    /\ conv = NoConv
    /\ \E c \in Configs : InitIn(c)

(***************************************************************************)
(* Mutex port, system/lwprintf_sys.h                                       *)
(***************************************************************************)
\* a port whose lwprintf_sys_mutex_isvalid takes every handle for valid
lwprintf_sys_mutex_isvalid_always(mx) ==
    TRUE

lwprintf_sys_mutex_isvalid(mx) ==
    mx.valid

\* lwprintf_sys_mutex_wait can return 1 for thread t
MutexCanTake(mx, t) ==
    mx.owner = NoOwner

lwprintf_sys_mutex_release(mx, t) ==
    IF mx.owner = t THEN [mx EXCEPT !.owner = NoOwner] ELSE mx

(***************************************************************************)
(* lwprintf_init_ex, by the application before its threads call the        *)
(* library                                                                 *)
(***************************************************************************)
InitEx(h, fn) ==
    LET o == LWPRINTF_GET_LWOBJ(h)
        mx == lwobj[o].mutex
    IN /\ \A t \in Threads : pc[t] = "idle"
       /\ ninits < MaxInits
       /\ ninits' = ninits + 1
       /\ IF cfg.os = 1 /\ fn # "NULL"
          THEN IF lwprintf_sys_mutex_isvalid(mx)
               THEN /\ lwobj' = [lwobj EXCEPT ![o].out_fn = fn]
                    /\ api' = [api EXCEPT !.op = "init", !.t = 0, !.o = o, !.ret = 0,
                                          !.create = "none"]
               ELSE \E created \in BOOLEAN :
                      /\ lwobj' = [lwobj EXCEPT ![o].out_fn = fn, ![o].mutex.valid = created]
                      /\ api' = [api EXCEPT !.op = "init", !.t = 0, !.o = o,
                                            !.ret = IF created THEN 1 ELSE 0,
                                            !.create = IF created THEN "ok" ELSE "failed"]
          ELSE /\ lwobj' = [lwobj EXCEPT ![o].out_fn = fn]
               /\ api' = [api EXCEPT !.op = "init", !.t = 0, !.o = o, !.ret = 1,
                                     !.create = "none"]
       /\ UNCHANGED << conv, cfg, pc, lwi, ret, mem, slog, g >>

\* lwprintf_sys_mutex_release returns 1 for thread t
MutexCanRelease(mx, t) ==
    mx.valid /\ mx.owner = t

\* Thread t is between two calls of the library and no other thread is inside
\* one: protect and unprotect touch the mutex only, which no call of the
\* manual-protect build reads, so their steps commute with the steps of a call
\* in progress
Outside(t) ==
    /\ pc[t] \in {"idle", "done"}
    /\ \A u \in Threads \ {t} : pc[u] \in {"idle", "done"}

\* lwprintf_protect_ex by a thread that does not hold the mutex; compiled in
\* with LWPRINTF_CFG_OS_MANUAL_PROTECT
ProtectEx(t, h) ==
    LET o == LWPRINTF_GET_LWOBJ(h)
        mx == lwobj[o].mutex
        called == [api EXCEPT !.op = "protect", !.t = t, !.o = o, !.create = "none",
                              !.n = @ + 1]
    IN /\ cfg.manual = 1
       /\ Outside(t)
       /\ api.n < MaxProtects
       /\ mx.owner # t
       /\ IF lwobj[o].out_fn # "NULL" /\ lwprintf_sys_mutex_isvalid(mx)
          THEN \/ /\ MutexCanTake(mx, t)
                  /\ lwobj' = [lwobj EXCEPT ![o].mutex.owner = t]
                  /\ api' = [called EXCEPT !.ret = 1]
               \/ /\ lwobj' = lwobj
                  /\ api' = [called EXCEPT !.ret = 0]
          ELSE /\ lwobj' = lwobj
               /\ api' = [called EXCEPT !.ret = 0]
       /\ UNCHANGED << conv, cfg, ninits, pc, lwi, ret, mem, slog, g >>

\* lwprintf_unprotect_ex
UnprotectEx(t, h) ==
    LET o == LWPRINTF_GET_LWOBJ(h)
        mx == lwobj[o].mutex
        called == [api EXCEPT !.op = "unprotect", !.t = t, !.o = o, !.create = "none",
                              !.n = @ + 1]
    IN /\ cfg.manual = 1
       /\ Outside(t)
       /\ api.n < MaxProtects
       /\ IF lwobj[o].out_fn # "NULL"
          THEN /\ lwobj' = [lwobj EXCEPT ![o].mutex = lwprintf_sys_mutex_release(@, t)]
               /\ api' = [called EXCEPT !.ret = IF MutexCanRelease(mx, t) THEN 1 ELSE 0]
          ELSE /\ lwobj' = lwobj
               /\ api' = [called EXCEPT !.ret = 0]
       /\ UNCHANGED << conv, cfg, ninits, pc, lwi, ret, mem, slog, g >>

(***************************************************************************)
(* lwprintf_vprintf_ex and lwprintf_vsnprintf_ex up to the call of         *)
(* prv_format                                                              *)
(***************************************************************************)
NewLwi(h, c, out_fn, buffnull, buff_size) ==
    [NoLwi EXCEPT !.h = h, !.c = c, !.lwobj = LWPRINTF_GET_LWOBJ(h), !.fmt = Cases[c].fmt,
                  !.args = Cases[c].args, !.out_fn = out_fn, !.buffnull = buffnull,
                  !.buff_size = buff_size]

\* Thread t may start a call with case c: calls overlap another call only
\* with the cases ConcCases
MayStart(t, c) ==
    /\ pc[t] = "idle"
    /\ \A u \in Threads \ {t} : pc[u] = "idle" \/ (c \in ConcCases /\ lwi[u].c \in ConcCases)

VPrintf(t, h, c) ==
    LET fobj == NewLwi(h, c, "prv_out_fn_print", TRUE, 0)
    IN /\ MayStart(t, c)
       /\ lwi' = [lwi EXCEPT ![t] = fobj]
       /\ IF lwobj[fobj.lwobj].out_fn = "NULL"
          THEN pc' = [pc EXCEPT ![t] = "done"] /\ ret' = [ret EXCEPT ![t] = 0]
          ELSE pc' = [pc EXCEPT ![t] = "enter"] /\ ret' = ret
       /\ g' = [g EXCEPT ![t].held_by = lwobj[fobj.lwobj].mutex.owner]
       /\ api' = [NoApi EXCEPT !.n = api.n]
       /\ UNCHANGED << conv, cfg, lwobj, ninits, mem, slog >>

\* s_out is NULL (buffnull) or points to an array of MemSize bytes that all
\* hold the byte fill
VSnprintf(t, h, c, buffnull, n_maxlen, fill) ==
    /\ MayStart(t, c)
    /\ lwi' = [lwi EXCEPT ![t] = NewLwi(h, c, "prv_out_fn_write_buff", buffnull, n_maxlen)]
    /\ mem' = [mem EXCEPT ![t] = [i \in 0..(MemSize - 1) |-> fill]]
    /\ pc' = [pc EXCEPT ![t] = "enter"]
    /\ g' = [g EXCEPT ![t].held_by = lwobj[LWPRINTF_GET_LWOBJ(h)].mutex.owner]
    /\ api' = [NoApi EXCEPT !.n = api.n]
    /\ UNCHANGED << conv, cfg, lwobj, ninits, ret, slog >>

(***************************************************************************)
(* prv_format                                                              *)
(***************************************************************************)
\* the entry guard compiled in for every build with OS support
LocksOnEntry_with_os(l) ==
    cfg.os = 1 /\ IS_PRINT_MODE(l)

\* the entry guard compiled in only for the manual-protect build
LocksOnEntry_manual_only(l) ==
    cfg.os = 1 /\ cfg.manual = 1 /\ IS_PRINT_MODE(l)

\* the release skipped when the print was cancelled
ReleasesOnExit_unless_cancelled(l) ==
    cfg.os = 1 /\ cfg.manual = 0 /\ IS_PRINT_MODE(l) /\ l.is_print_cancelled = 0

\* #if LWPRINTF_CFG_OS && !LWPRINTF_CFG_OS_MANUAL_PROTECT, on entry
LocksOnEntry(l) ==
    cfg.os = 1 /\ cfg.manual = 0 /\ IS_PRINT_MODE(l)

\* the same, before the return
ReleasesOnExit(l) ==
    cfg.os = 1 /\ cfg.manual = 0 /\ IS_PRINT_MODE(l)

\* the condition of the while loop together with the cancel check
LoopContinues(l) ==
    At(l.fmt, l.pos) # NUL /\ l.is_print_cancelled = 0

FormatEnter(t) ==
    LET l == lwi[t]
        mx == lwobj[l.lwobj].mutex
    IN /\ pc[t] = "enter"
       /\ IF LocksOnEntry(l)
          THEN IF ~lwprintf_sys_mutex_isvalid(mx)
               THEN /\ lwi' = [lwi EXCEPT ![t].ok = 0]
                    /\ pc' = [pc EXCEPT ![t] = "ret"]
                    /\ g' = [g EXCEPT ![t].valids = @ + 1]
                    /\ lwobj' = lwobj
               ELSE \/ /\ MutexCanTake(mx, t)
                       /\ lwobj' = [lwobj EXCEPT ![l.lwobj].mutex.owner = t]
                       /\ pc' = [pc EXCEPT ![t] = "run"]
                       /\ g' = [g EXCEPT ![t].valids = @ + 1, ![t].waits = @ + 1]
                       /\ lwi' = lwi
                    \/ /\ lwi' = [lwi EXCEPT ![t].ok = 0]
                       /\ pc' = [pc EXCEPT ![t] = "ret"]
                       /\ g' = [g EXCEPT ![t].valids = @ + 1, ![t].failed = @ + 1]
                       /\ lwobj' = lwobj
          ELSE /\ pc' = [pc EXCEPT ![t] = "run"]
               /\ UNCHANGED << lwobj, lwi, g >>
       /\ UNCHANGED << conv, cfg, ninits, api, ret, mem, slog >>

\* the stores wr applied to the array behind the buffer pointer
RECURSIVE Store(_, _)
Store(a, wr) ==
    IF wr = << >> THEN a
    ELSE Store([a EXCEPT ![wr[1][1]] = wr[1][2]], Tail(wr))

\* lwi->out_fn(lwi, chr) by thread t, l being its lwprintf_int_t, and then
\* the position npc.  A store through a null pointer or beyond the array is
\* undefined: the call faults, or goes on and the store is lost.
Emit(t, l, chr, npc) ==
    IF IS_PRINT_MODE(l)
    THEN \E resp \in {0, 1} :
           LET r == prv_out_fn_print(l, chr, resp)
           IN /\ lwi' = [lwi EXCEPT ![t] = r.lwi]
              /\ slog' = IF r.called
                         THEN [slog EXCEPT ![l.lwobj] = Append(@, [t |-> t, chr |-> chr, resp |-> resp])]
                         ELSE slog
              /\ pc' = [pc EXCEPT ![t] = npc]
              /\ UNCHANGED << mem, g >>
    ELSE LET r == prv_out_fn_write_buff(l, chr)
             undefined == \E i \in 1..Len(r.wr) : l.buffnull \/ r.wr[i][1] >= MemSize
             gn == [g EXCEPT ![t].stores = @ + Len(r.wr),
                             ![t].oob = @ \/ \E i \in 1..Len(r.wr) : r.wr[i][1] >= l.buff_size]
         IN /\ slog' = slog
            /\ IF undefined
               THEN \/ /\ pc' = [pc EXCEPT ![t] = "fault"]
                       /\ g' = gn
                       /\ UNCHANGED << lwi, mem >>
                    \/ /\ pc' = [pc EXCEPT ![t] = npc]
                       /\ lwi' = [lwi EXCEPT ![t] = r.lwi]
                       /\ g' = gn
                       /\ mem' = mem
               ELSE /\ pc' = [pc EXCEPT ![t] = npc]
                    /\ lwi' = [lwi EXCEPT ![t] = r.lwi]
                    /\ mem' = [mem EXCEPT ![t] = Store(@, r.wr)]
                    /\ g' = gn

\* lwi after the iteration it, whose calls of out_fn are still to be made
Iterated(l, it) ==
    [l EXCEPT !.pos = it.pos, !.ai = it.ai, !.m = it.m, !.pend = it.out]

\* one iteration of the while loop up to its first call of out_fn
FormatStep(t) ==
    LET l == lwi[t]
    IN /\ pc[t] = "run"
       /\ l.pend = << >>
       /\ LoopContinues(l)
       /\ lwi' = [lwi EXCEPT ![t] =
                    Iterated(l, Iteration(l.fmt, l.pos, l.args, l.ai, l.m, l.buffnull, l.buff_size))]
       /\ UNCHANGED << conv, cfg, lwobj, ninits, api, pc, ret, mem, slog, g >>

\* the next call of out_fn of the iteration
OutFn(t) ==
    LET l == lwi[t]
    IN /\ pc[t] = "run"
       /\ l.pend # << >>
       /\ Emit(t, [l EXCEPT !.pend = Tail(@)], Head(l.pend), "run")
       /\ UNCHANGED << conv, cfg, lwobj, ninits, api, ret >>

\* lwi->out_fn(lwi, '\0') after the loop
FormatEnd(t) ==
    LET l == lwi[t]
    IN /\ pc[t] = "run"
       /\ l.pend = << >>
       /\ ~LoopContinues(l)
       /\ Emit(t, l, NUL, "exit")
       /\ UNCHANGED << conv, cfg, lwobj, ninits, api, ret >>

\* the release of the mutex and return 1
FormatExit(t) ==
    LET l == lwi[t]
    IN /\ pc[t] = "exit"
       /\ IF ReleasesOnExit(l)
          THEN /\ lwobj' = [lwobj EXCEPT ![l.lwobj].mutex =
                              lwprintf_sys_mutex_release(@, t)]
               /\ g' = [g EXCEPT ![t].releases = @ + 1]
          ELSE UNCHANGED << lwobj, g >>
       /\ lwi' = [lwi EXCEPT ![t].ok = 1]
       /\ pc' = [pc EXCEPT ![t] = "ret"]
       /\ UNCHANGED << conv, cfg, ninits, api, ret, mem, slog >>

\* back in lwprintf_vprintf_ex or lwprintf_vsnprintf_ex: the value returned
Return(t) ==
    /\ pc[t] = "ret"
    /\ ret' = [ret EXCEPT ![t] = IF lwi[t].ok = 1 THEN lwi[t].n_len ELSE 0]
    /\ pc' = [pc EXCEPT ![t] = "done"]
    /\ UNCHANGED << conv, cfg, lwobj, ninits, api, lwi, mem, slog, g >>

\* a garbage byte a caller's buffer may hold before the call
Garbage ==
    Chr("#")

Next ==
    \/ \E h \in Handles, fn \in {"NULL", "sink"} : InitEx(h, fn)
    \/ \E t \in Threads, h \in Handles, c \in 1..Len(Cases) :
         /\ (t = 2 => h = "NULL")
         /\ VPrintf(t, h, c)
    \/ \E c \in 1..Len(Cases), n \in Capacities :
         \/ VSnprintf(1, "NULL", c, FALSE, n, Garbage)
         \/ n = 0 /\ VSnprintf(1, "NULL", c, TRUE, n, Garbage)
    \/ \E t \in Threads, h \in Handles : ProtectEx(t, h)
    \/ \E t \in Threads, h \in Handles : UnprotectEx(t, h)
    \/ \E t \in Threads : FormatEnter(t)
    \/ \E t \in Threads : FormatStep(t)
    \/ \E t \in Threads : OutFn(t)
    \/ \E t \in Threads : FormatEnd(t)
    \/ \E t \in Threads : FormatExit(t)
    \/ \E t \in Threads : Return(t)

Spec ==
    Init /\ [][Next]_vars

(***************************************************************************)
(* Conversions under study: one directive or one call of the integer       *)
(* converter, applied to an input drawn from the families below.           *)
(***************************************************************************)
\* the character of a decimal digit
DigitOf(n) ==
    Chr("0") + n

\* the flag characters of the flags fs, in the order - + 0 space
FlagText(fs) ==
    (IF "-" \in fs THEN << Chr("-") >> ELSE << >>)
    \o (IF "+" \in fs THEN << Chr("+") >> ELSE << >>)
    \o (IF "0" \in fs THEN << Chr("0") >> ELSE << >>)
    \o (IF " " \in fs THEN << Chr(" ") >> ELSE << >>)

\* a directive and the arguments it pulls
Dir(text, args) ==
    [fmt |-> Str(text), args |-> args]

Directives ==
    { Dir(<< "%", "+", "0", "5", "d" >>, << 42 >>),
      Dir(<< "%", "-", "6", "X" >>, << 255 >>),
      Dir(<< "%", "#", "o" >>, << 8 >>),
      Dir(<< "%", "l", "l", "d" >>, << -7 >>),
      Dir(<< "%", "h", "h", "u" >>, << 300 >>),
      Dir(<< "%", "*", "d" >>, << 4, 9 >>),
      Dir(<< "%", ".", "3", "u" >>, << 12 >>),
      Dir(<< "%", "c" >>, << 65 >>),
      Dir(<< "%", "%" >>, << >>),
      Dir(<< "%", " ", "d" >>, << 5 >>),
      Dir(<< "%", "#", "4", "b" >>, << 2 >>) }

\* two directives one after the other in a template
PairInputs ==
    {[fam |-> "pair", d1 |-> a, d2 |-> b, fmt |-> a.fmt \o b.fmt, args |-> a.args \o b.args] :
       a \in Directives, b \in Directives}

SignedWidths ==
    {0, 1, 3, 6}

SignedValues ==
    {-123, -5, 0, 7, 4321}

\* %[flags][width]d
SignedInputs ==
    {[fam |-> "signed", flags |-> fs, width |-> w, v |-> v,
      fmt |-> << Chr("%") >> \o FlagText(fs) \o (IF w > 0 THEN << DigitOf(w) >> ELSE << >>)
                \o << Chr("d") >>,
      args |-> << v >>] :
       fs \in SUBSET {"-", "+", "0", " "}, w \in SignedWidths, v \in SignedValues}

IntBases ==
    {2, 8, 10, 16}

\* values at the edges of the digit counts and of the type of the given width
IntValues(bits, base) ==
    {0, 1, base - 1, base, base + 1, base * base - 1, base * base, 255, 256, 1000,
     Pow2(bits - 1) - 1, Pow2(bits - 1), Pow2(bits) - 2, Pow2(bits) - 1}

\* OUTPUT_ANY_INT_TYPE for a type of the given width
IntInputs ==
    UNION {{[fam |-> "int", bits |-> bits, base |-> base, v |-> v] : v \in IntValues(bits, base)} :
             bits \in {IntBits, LongBits, LongLongBits, SizeBits}, base \in IntBases}

IntTypes ==
    {Chr("d"), Chr("i"), Chr("u"), Chr("x"), Chr("X"), Chr("o"), Chr("b"), Chr("B")}

\* %hh and %h with an integer type letter
NarrowInputs ==
    {[fam |-> "narrow", hs |-> n, type |-> c, v |-> v,
      fmt |-> << Chr("%") >> \o Rep(Chr("h"), n) \o << c >>, args |-> << v >>] :
       n \in {1, 2}, c \in IntTypes, v \in {0, 44, 127, 255, 256, 300, 65535, 65536, 70000}}

LengthModifiers ==
    { Str(<< "h", "h" >>), Str(<< "h" >>), Str(<< "l", "l" >>), Str(<< "l" >>),
      Str(<< "L" >>), Str(<< "z" >>), Str(<< "j" >>), Str(<< "t" >>) }

\* %[length]type with a value every width holds
LengthInputs ==
    {[fam |-> "length", mod |-> md, type |-> c, v |-> v,
      fmt |-> << Chr("%") >> \o md \o << c >>, args |-> << v >>] :
       md \in LengthModifiers, c \in {Chr("d"), Chr("u"), Chr("x")}, v \in {0, 5, 77}}

AltTypes ==
    {Chr("x"), Chr("X"), Chr("o"), Chr("b"), Chr("B")}

AltWidths ==
    {0, 2, 6, 9}

\* %#[flags][width]type in the bases 16, 8 and 2
AltInputs ==
    {[fam |-> "alt", flags |-> fs, width |-> w, type |-> c, v |-> v,
      fmt |-> << Chr("%"), Chr("#") >> \o FlagText(fs)
                \o (IF w > 0 THEN << DigitOf(w) >> ELSE << >>) \o << c >>,
      args |-> << v >>] :
       fs \in SUBSET {"-", "0"}, w \in AltWidths, c \in AltTypes, v \in {0, 1, 6, 123, 255}}

\* a finite double of the value mant * 10^e, negated when neg
Fin(neg, mant, e) ==
    [cls |-> "fin", neg |-> neg, mant |-> mant, e |-> e, bias |-> 0]

\* the double 0.000000000000005 below the finite value d
Below(d) ==
    [d EXCEPT !.bias = -1]

\* finite values: zero, values with exponents on both sides of -4 and of
\* the precisions explored, values that round with a carry, a value above
\* every float_long_t
FiniteValues ==
    { Fin(FALSE, 0, 0), Fin(FALSE, 1, 0), Fin(FALSE, 5, -1), Fin(TRUE, 25, -1),
      Fin(FALSE, 100001, -5), Fin(FALSE, 432432423, -4), Fin(FALSE, 123457, -9),
      Fin(FALSE, 123, -7), Fin(FALSE, 1, -4), Fin(FALSE, 99999, -9),
      Fin(FALSE, 1, 5), Fin(FALSE, 1, 6), Fin(FALSE, 1234567, 0),
      Fin(FALSE, 99999995, -7), Fin(FALSE, 123456789, 0), Fin(FALSE, 123456789, 1),
      Fin(TRUE, 5, 20) }

\* NaN and the values beyond DBL_MAX
SpecialValues ==
    { [cls |-> "nan", neg |-> FALSE, mant |-> 0, e |-> 0],
      [cls |-> "inf", neg |-> FALSE, mant |-> 0, e |-> 0],
      [cls |-> "inf", neg |-> TRUE, mant |-> 0, e |-> 0] }

FloatTypes ==
    {Chr("f"), Chr("F"), Chr("e"), Chr("E"), Chr("g"), Chr("G")}

\* precisions passed as an argument; -1 stands for no precision
Precisions ==
    {-1, 0, 1, 2, 3, 5, 6, 9, 12}

FloatWidths ==
    {0, 12}

\* the template %[+][width][.*]type
FloatFmt(plus, w, prec, c) ==
    << Chr("%") >> \o (IF plus = 1 THEN << Chr("+") >> ELSE << >>)
    \o DecStr(w)
    \o (IF prec >= 0 THEN << Chr("."), Chr("*") >> ELSE << >>)
    \o << c >>

FloatArgs(prec, num) ==
    IF prec >= 0 THEN << prec, num >> ELSE << num >>

\* g and G of the finite values at every precision, and every type of the
\* special values at the default precision
FloatInputs ==
    {[fam |-> "float", type |-> c, plus |-> pl, w |-> w, prec |-> pr, num |-> v,
      fmt |-> FloatFmt(pl, w, pr, c), args |-> FloatArgs(pr, v)] :
       c \in {Chr("g"), Chr("G")}, pl \in {0}, w \in FloatWidths, pr \in Precisions,
       v \in FiniteValues}
    \cup
    {[fam |-> "float", type |-> c, plus |-> pl, w |-> w, prec |-> -1, num |-> v,
      fmt |-> FloatFmt(pl, w, -1, c), args |-> FloatArgs(-1, v)] :
       c \in FloatTypes, pl \in {0, 1}, w \in FloatWidths, v \in SpecialValues}

\* finite values for f and e: values that round up, ties at the precisions
\* explored, values that round with a carry into the integer part, and
\* exponents of two and of three digits
FixedValues ==
    { Fin(FALSE, 0, 0), Fin(FALSE, 199, -2), Fin(TRUE, 25, -1), Fin(FALSE, 5, -1),
      Fin(FALSE, 125, -2), Fin(FALSE, 995, -2), Fin(FALSE, 99999999, -7),
      Fin(FALSE, 123, -7), Fin(FALSE, 123457, -9), Fin(FALSE, 1234567, 0),
      Fin(FALSE, 32687, -3), Fin(FALSE, 1, 123), Fin(FALSE, 7, 99) }

\* doubles that stand 0.000000000000005 below a tie of the first or of the
\* second decimal place
TieValues ==
    { Below(Fin(FALSE, 5, -2)), Below(Fin(FALSE, 95, -2)), Below(Fin(FALSE, 195, -2)),
      Below(Fin(FALSE, 5, -3)), Below(Fin(FALSE, 995, -3)) }

\* a value whose exponent has three digits and a minus sign
TinyValues ==
    { Fin(TRUE, 15, -110) }

FixedWidths ==
    {0, 10, 15}

\* f, F, e and E of the finite values at every precision, e and E of the
\* tiny values
FixedInputs ==
    {[fam |-> "fixed", type |-> c, plus |-> 0, w |-> w, prec |-> pr, num |-> v,
      fmt |-> FloatFmt(0, w, pr, c), args |-> FloatArgs(pr, v)] :
       c \in {Chr("f"), Chr("F"), Chr("e"), Chr("E")}, w \in FixedWidths, pr \in Precisions,
       v \in FixedValues \cup TieValues}
    \cup
    {[fam |-> "fixed", type |-> c, plus |-> 0, w |-> w, prec |-> pr, num |-> v,
      fmt |-> FloatFmt(0, w, pr, c), args |-> FloatArgs(pr, v)] :
       c \in {Chr("e"), Chr("E")}, w \in FixedWidths, pr \in Precisions, v \in TinyValues}

\* the signed converters with the values at the ends of their types
SignedArgs ==
    UNION {{[fam |-> "sint", bits |-> bits, v |-> v] :
              v \in {-Pow2(bits - 1), 1 - Pow2(bits - 1), -1000, -1, 0, 1, 10,
                     Pow2(bits - 1) - 1}} :
             bits \in {IntBits, LongBits, LongLongBits}}

\* precisions written in the template: within the table, above it, and
\* digit strings beyond INT_MAX
PrecisionTexts ==
    { Str(<< "0" >>), Str(<< "5" >>), Str(<< "9" >>), Str(<< "1", "0" >>), Str(<< "1", "2" >>),
      DecStr(Pow2(IntBits - 1)), DecStr(Pow2(IntBits) - 1), DecStr(Pow2(IntBits) + 4),
      DecStr(Pow2(IntBits) + 12) }

\* precisions passed for '*'
PrecisionArgs ==
    {-3, 0, 1, 9, 10, 12}

PrecValues ==
    { Fin(FALSE, 0, 0), Fin(FALSE, 199, -2), Fin(FALSE, 1, -4), Fin(FALSE, 123, -7),
      Fin(FALSE, 1234567, 0), Fin(FALSE, 123456789, 1) }

\* %.[precision]type of a finite value, the precision in the template or
\* in the arguments
PrecInputs ==
    {[fam |-> "prec", type |-> c, num |-> v,
      fmt |-> << Chr("%"), Chr(".") >> \o t \o << c >>, args |-> << v >>] :
       c \in {Chr("f"), Chr("e"), Chr("g")}, t \in PrecisionTexts, v \in PrecValues}
    \cup
    {[fam |-> "prec", type |-> c, num |-> v,
      fmt |-> << Chr("%"), Chr("."), Chr("*"), c >>, args |-> << pr, v >>] :
       c \in {Chr("f"), Chr("e"), Chr("g")}, pr \in PrecisionArgs, v \in PrecValues}

\* templates that end inside a directive, after the '%', a flag, a width,
\* a precision or a length modifier, and templates that end after one
TailInputs ==
    {[fam |-> "tail", fmt |-> pre \o t, args |-> << 5, 7 >>] :
       pre \in {<< >>, Str(<< "a" >>), Str(<< "%", "d" >>)},
       t \in { << >>, Str(<< "%" >>), Str(<< "%", "-" >>), Str(<< "%", "5" >>),
               Str(<< "%", "." >>), Str(<< "%", ".", "3" >>), Str(<< "%", "h" >>),
               Str(<< "%", "h", "h" >>), Str(<< "%", "l" >>), Str(<< "%", "l", "l" >>),
               Str(<< "%", "z" >>), Str(<< "%", "*" >>), Str(<< "%", "%" >>),
               Str(<< "%", "d" >>), Str(<< "%", "c", "b" >>), Str(<< "%", "q" >>) }}

\* magnitudes within float_long_t for the split at a precision
SplitValues ==
    { Fin(FALSE, 0, 0), Fin(FALSE, 5, -1), Fin(FALSE, 25, -1), Fin(FALSE, 125, -2),
      Fin(FALSE, 199, -2), Fin(FALSE, 995, -2), Fin(FALSE, 12345678, -6),
      Fin(FALSE, 99999999, -7), Fin(FALSE, 999999999, -9), Fin(FALSE, 123, -7),
      Fin(FALSE, 1234567, 0), Fin(FALSE, 32687, -3) }
    \cup TieValues

\* prv_calculate_dbl_num_data of a magnitude at a precision within the table
SplitInputs ==
    {[fam |-> "split", num |-> v, p |-> pr] : v \in SplitValues, pr \in 0..(PowersOf10Size - 1)}

FmtInputs ==
    PairInputs \cup SignedInputs \cup NarrowInputs \cup LengthInputs \cup FloatInputs
    \cup AltInputs \cup FixedInputs

\* the program variables, which a conversion under study leaves alone
progvars ==
    << cfg, lwobj, ninits, api, pc, lwi, ret, mem, slog, g >>

ConvInit ==
    /\ InitIn([os |-> 0, manual |-> 0])
    /\ \E x \in FmtInputs \cup IntInputs \cup SplitInputs \cup SignedArgs \cup PrecInputs
                \cup TailInputs :
         conv = [in |-> x, out |-> << >>, done |-> FALSE, trap |-> FALSE, reads |-> {}]

\* prv_format over the template of the input, in a print session whose sink
\* accepts every byte
ConvertFmt ==
    /\ ~conv.done
    /\ conv.in \in FmtInputs
    /\ conv' = [conv EXCEPT !.out = FormatFrom(conv.in.fmt, 1, conv.in.args, 0, ZeroM, TRUE, 0),
                            !.done = TRUE]
    /\ UNCHANGED progvars

\* the integer converter alone, in the base of the input
ConvertInt ==
    /\ ~conv.done
    /\ conv.in \in IntInputs
    /\ conv' = [conv EXCEPT !.out = OUTPUT_ANY_INT_TYPE([ZeroM EXCEPT !.base = conv.in.base],
                                                        conv.in.v, conv.in.bits).out,
                            !.done = TRUE]
    /\ UNCHANGED progvars

\* the pair of integer_part and decimal_part in the float_num_t n
Parts(n) ==
    << n.integer_part, n.decimal_part >>

\* prv_calculate_dbl_num_data alone, for the type f
ConvertSplit ==
    /\ ~conv.done
    /\ conv.in \in SplitInputs
    /\ conv' = [conv EXCEPT !.out = Parts(prv_calculate_dbl_num_data(
                                               [ZeroM EXCEPT !.precision = conv.in.p],
                                               conv.in.num, Chr("f")).n),
                            !.done = TRUE]
    /\ UNCHANGED progvars

\* a signed converter alone, in base 10: the negation takes one of the
\* outcomes it has in a build, and a trap ends the program with no output
ConvertSigned ==
    /\ ~conv.done
    /\ conv.in \in SignedArgs
    /\ \E neg \in Negations(conv.in.v, conv.in.bits) :
         conv' = IF conv.in.v < 0 /\ neg.trap
                 THEN [conv EXCEPT !.trap = TRUE, !.done = TRUE]
                 ELSE [conv EXCEPT !.out = SignedToStrAs([ZeroM EXCEPT !.base = 10], conv.in.v,
                                                         conv.in.bits, neg.v).out,
                                   !.done = TRUE]
    /\ UNCHANGED progvars

\* the parser state of the directive at the head of f at its type letter
AtType(f, args) ==
    ParseLength(f, ParsePrecision(f, args, ParseWidth(f, args,
        ParseFlags(f, [m |-> ZeroM, pos |-> 2, ai |-> 0]))))

\* the reads of powers_of_10 for the finite number num, st being the parser
\* state at the type letter
ReadsAt(f, st, num) ==
    DblReads(DblPrecision(DblStart(TypeOf(st.m, At(f, st.pos)), num,
                                   DblAbove(num, PowersOf10Size - 1))))

\* the precision of the directive at the head of f is a number of the
\* template that overflows int
PrecisionOverflows(f) ==
    /\ At(f, 2) = Chr(".")
    /\ ParseNumOverflows(f, 3, 0)

\* the bytes of the directive when every read of powers_of_10 is within the
\* table; a read outside of it is undefined and determines no bytes
OutWithin(x, reads) ==
    IF reads \subseteq 0..(PowersOf10Size - 1)
    THEN FormatFrom(x.fmt, 1, x.args, 0, ZeroM, TRUE, 0)
    ELSE << >>

\* prv_format over a float directive with a precision, with the indices it
\* reads powers_of_10 with.  An int that overflows in prv_parse_num wraps or
\* traps, and a trap ends the program
ConvertPrec ==
    /\ ~conv.done
    /\ conv.in \in PrecInputs
    /\ \E trap \in (IF PrecisionOverflows(conv.in.fmt) THEN {FALSE, TRUE} ELSE {FALSE}) :
         conv' = IF trap
                 THEN [conv EXCEPT !.trap = TRUE, !.done = TRUE]
                 ELSE [conv EXCEPT
                         !.reads = ReadsAt(conv.in.fmt, AtType(conv.in.fmt, conv.in.args),
                                           conv.in.num),
                         !.out = OutWithin(conv.in,
                                           ReadsAt(conv.in.fmt,
                                                   AtType(conv.in.fmt, conv.in.args),
                                                   conv.in.num)),
                         !.done = TRUE]
    /\ UNCHANGED progvars

\* the while loop of prv_format over the template, with the indices at
\* which its condition reads
ConvertTail ==
    /\ ~conv.done
    /\ conv.in \in TailInputs
    /\ conv' = [conv EXCEPT !.out = LoopReads(conv.in.fmt, 1, conv.in.args, 0, ZeroM),
                            !.done = TRUE]
    /\ UNCHANGED progvars

ConvNext ==
    \/ ConvertFmt
    \/ ConvertInt
    \/ ConvertSplit
    \/ ConvertSigned
    \/ ConvertPrec
    \/ ConvertTail

SpecConv ==
    ConvInit /\ [][ConvNext]_vars

(***************************************************************************)
(* Properties                                                              *)
(***************************************************************************)
\* the sink invocations of thread t on instance o, as indices of slog[o]
SinkCalls(o, t) ==
    {i \in 1..Len(slog[o]) : slog[o][i].t = t}

IsNonNull(c) ==
    c # NUL

NonNull(out) ==
    SelectSeq(out, IsNonNull)

\* the session of thread t is a buffer session on an array, capacity >= 1
BuffSession(t) ==
    lwi[t].out_fn = "prv_out_fn_write_buff" /\ ~lwi[t].buffnull /\ lwi[t].buff_size >= 1

\* the characters of the complete output of the call of l: what prv_format
\* hands to out_fn when the buffer is an array of MemSize bytes
FullOutput(l) ==
    FormatFrom(l.fmt, 1, l.args, 0, ZeroM, FALSE, MemSize)

\* the characters a direct print of the same template and arguments hands
\* to out_fn: buff is NULL and buff_size 0, as lwprintf_vprintf_ex sets them
PrintOutput(l) ==
    FormatFrom(l.fmt, 1, l.args, 0, ZeroM, TRUE, 0)

\* the notional length of the call of l
Notional(l) ==
    Len(NonNull(PrintOutput(l)))

\* the C string in the array a
RECURSIVE CString(_, _)
CString(a, i) ==
    IF i >= MemSize \/ a[i] = NUL THEN << >> ELSE << a[i] >> \o CString(a, i + 1)

\* the array after prv_out_fn_write_buff has been called for each character
\* of out, by a session l
RECURSIVE WriteAll(_, _, _)
RECURSIVE WriteNext(_, _, _)
WriteNext(r, a, out) ==
    WriteAll(r.lwi, Store(a, r.wr), out)

WriteAll(l, a, out) ==
    IF out = << >> THEN a
    ELSE WriteNext(prv_out_fn_write_buff(l, Head(out)), a, Tail(out))

\* what the same call stores in a buffer large enough for the whole output
FullStored(l) ==
    CString(WriteAll([l EXCEPT !.buff_size = MemSize, !.n_len = 0],
                     [i \in 0..(MemSize - 1) |-> Garbage],
                     FullOutput(l) \o << NUL >>), 0)

\* the bytes the buffer session of thread t has stored
Stored(t) ==
    [i \in 1..lwi[t].n_len |-> mem[t][i - 1]]

IsPrefix(a, b) ==
    Len(a) <= Len(b) /\ \A i \in 1..Len(a) : a[i] = b[i]

\* C1: in a direct-print call, once the sink has returned 0 for a byte it is
\* not invoked again during that call, neither for the rest of the template
\* nor for the byte of a directive in progress nor for the terminating null.
C1_NoSinkCallAfterRejection ==
    \A o \in Instances : \A i \in 1..Len(slog[o]) : \A j \in 1..Len(slog[o]) :
      (i < j /\ slog[o][i].t = slog[o][j].t) => slog[o][i].resp # 0

\* a print call has returned after the sink rejected a byte of a directive
\* that had further bytes to emit, while template bytes were left
C1_Witness ==
    \E t \in Threads :
      /\ pc[t] = "done" /\ IS_PRINT_MODE(lwi[t])
      /\ At(lwi[t].fmt, lwi[t].pos) # NUL
      /\ lwi[t].ai > 0
      /\ Cardinality(SinkCalls(lwi[t].lwobj, t)) + 2 <= Len(PrintOutput(lwi[t]))
      /\ \E i \in SinkCalls(lwi[t].lwobj, t) : slog[lwi[t].lwobj][i].resp = 0

\* C2: the value a direct-print call returns is the number of non-null bytes
\* for which the sink returned non-zero during the call.
C2_ReturnCountsAccepted ==
    \A t \in Threads :
      (pc[t] = "done" /\ IS_PRINT_MODE(lwi[t])) =>
        ret[t] = Cardinality({i \in SinkCalls(lwi[t].lwobj, t) :
                                /\ slog[lwi[t].lwobj][i].chr # NUL
                                /\ slog[lwi[t].lwobj][i].resp # 0})

\* a print call has returned a positive length after the sink rejected a
\* non-null byte
C2_Witness ==
    \E t \in Threads :
      /\ pc[t] = "done" /\ IS_PRINT_MODE(lwi[t]) /\ ret[t] > 0
      /\ \E i \in SinkCalls(lwi[t].lwobj, t) :
           slog[lwi[t].lwobj][i].resp = 0 /\ slog[lwi[t].lwobj][i].chr # NUL

\* C3: when the formatted output is longer than capacity - 1, the buffer call
\* returns the length the complete output would have had.
C3_ReturnsNotionalLength ==
    \A t \in Threads :
      (pc[t] = "done" /\ BuffSession(t) /\ Notional(lwi[t]) > lwi[t].buff_size - 1) =>
        ret[t] = Notional(lwi[t])

\* C4: on return from a buffer call with capacity >= 1 the buffer holds the
\* null byte at index min(returned length, capacity - 1).
C4_NullTerminated ==
    \A t \in Threads :
      (pc[t] = "done" /\ BuffSession(t)) =>
        mem[t][Min(ret[t], lwi[t].buff_size - 1)] = NUL

\* C5: a buffer session with capacity N >= 1 has stored at most N - 1 non-null
\* bytes, has written no index >= N, holds the null byte at buff[n_len] once
\* it has written a byte, and once n_len = N - 1 a further byte changes
\* neither the buffer nor n_len.
C5_Inv ==
    \A t \in Threads :
      BuffSession(t) =>
        /\ lwi[t].n_len <= lwi[t].buff_size - 1
        /\ ~g[t].oob
        /\ pc[t] # "fault"
        /\ (g[t].stores > 0 => mem[t][lwi[t].n_len] = NUL)

C5_Step ==
    \A t \in Threads :
      (BuffSession(t) /\ pc[t] = "run" /\ lwi[t].n_len = lwi[t].buff_size - 1) =>
        (mem'[t] = mem[t] /\ lwi'[t].n_len = lwi[t].n_len)

C5_BoundedWriter ==
    [](C5_Inv) /\ [][C5_Step]_vars

\* a buffer session whose output holds a null byte from %c has filled its
\* buffer and returned with bytes of the output left unstored
C5_Witness ==
    \E t \in Threads :
      /\ pc[t] = "done" /\ BuffSession(t)
      /\ lwi[t].n_len = lwi[t].buff_size - 1
      /\ g[t].stores > 0
      /\ \E i \in 1..Len(FullOutput(lwi[t])) : FullOutput(lwi[t])[i] = NUL
      /\ Notional(lwi[t]) > lwi[t].n_len

\* C6: a buffer session with capacity 0 makes no store through the buffer
\* pointer and returns the notional length of the complete output.
C6_ZeroCapacity ==
    \A t \in Threads :
      (lwi[t].out_fn = "prv_out_fn_write_buff" /\ lwi[t].buff_size = 0) =>
        /\ g[t].stores = 0
        /\ pc[t] # "fault"
        /\ (pc[t] = "done" => ret[t] = Notional(lwi[t]))

\* C7: the bytes a buffer call stores with capacity N >= 1 are a prefix of the
\* bytes the same call stores in a buffer large enough for the whole output.
C7_StoredIsPrefix ==
    \A t \in Threads :
      (pc[t] = "done" /\ BuffSession(t)) =>
        IsPrefix(Stored(t), FullStored(lwi[t]))

\* C8: with OS support and without manual protect, the sink invocations of
\* two direct-print calls on one instance do not interleave.
C8_NoInterleaving ==
    (cfg.os = 1 /\ cfg.manual = 0) =>
      \A o \in Instances : \A i \in 1..Len(slog[o]) : \A k \in 1..Len(slog[o]) :
        \A j \in i..k : slog[o][i].t = slog[o][k].t => slog[o][j].t = slog[o][i].t

\* a print call has invoked the sink and still runs while the other thread
\* is inside a print call on the same instance, before its wait returns
C8_Witness ==
    /\ cfg.os = 1 /\ cfg.manual = 0
    /\ \E t \in Threads : \E u \in Threads \ {t} :
         /\ IS_PRINT_MODE(lwi[t]) /\ IS_PRINT_MODE(lwi[u])
         /\ lwi[t].lwobj = lwi[u].lwobj
         /\ pc[t] = "run" /\ SinkCalls(lwi[t].lwobj, t) # {}
         /\ pc[u] = "enter"

\* C9: with OS support and without manual protect, a direct-print call that
\* waited successfully on the mutex has released it exactly once when it
\* returns, also when the sink cancelled the print; a call whose validation
\* or wait failed returns 0, has invoked no sink and released nothing; no
\* returned call owns a mutex.
C9_MutexReleased ==
    (cfg.os = 1 /\ cfg.manual = 0) =>
      \A t \in Threads :
        (IS_PRINT_MODE(lwi[t]) /\ pc[t] \in {"ret", "done"}) =>
          /\ g[t].waits <= 1
          /\ g[t].releases = g[t].waits
          /\ (g[t].waits = 0 =>
                /\ \A o \in Instances : SinkCalls(o, t) = {}
                /\ (pc[t] = "done" => ret[t] = 0))
          /\ \A o \in Instances : lwobj[o].mutex.owner # t

\* a print call cancelled by the sink before the end of the template has
\* returned, after one successful wait and one release
C9_Witness ==
    /\ cfg.os = 1 /\ cfg.manual = 0
    /\ \E t \in Threads :
         /\ pc[t] = "done" /\ IS_PRINT_MODE(lwi[t])
         /\ lwi[t].is_print_cancelled = 1 /\ At(lwi[t].fmt, lwi[t].pos) # NUL
         /\ g[t].waits = 1 /\ g[t].releases = 1

\* C10: a buffer session neither validates, waits on nor releases a mutex and
\* invokes no sink; and a print call that finds the mutex of its instance
\* taken finds it taken by a call on the same instance.
C10_BufferNeedsNoMutex ==
    /\ \A t \in Threads :
         lwi[t].out_fn = "prv_out_fn_write_buff" =>
           /\ g[t].valids = 0 /\ g[t].waits = 0 /\ g[t].failed = 0 /\ g[t].releases = 0
           /\ \A o \in Instances : SinkCalls(o, t) = {}
    /\ \A t \in Threads : \A u \in Threads \ {t} :
         (pc[t] = "enter" /\ LocksOnEntry(lwi[t]) /\ lwobj[lwi[t].lwobj].mutex.owner = u) =>
           lwi[u].h = lwi[t].h

\* a buffer session began while the other thread held the mutex of its
\* instance for a print and has returned while that thread still holds it
C10_Witness ==
    \E t \in Threads : \E u \in Threads \ {t} :
      /\ pc[t] = "done" /\ lwi[t].out_fn = "prv_out_fn_write_buff"
      /\ g[t].held_by = u
      /\ lwobj[lwi[t].lwobj].mutex.owner = u
      /\ pc[u] = "run" /\ IS_PRINT_MODE(lwi[u])
      /\ ret[t] > 0

\* the array a buffer session l leaves behind, computed in one piece: every
\* character prv_format hands to out_fn, and the terminating null, written
\* by prv_out_fn_write_buff into an array of garbage
BufferResult(l) ==
    WriteAll([l EXCEPT !.n_len = 0], [i \in 0..(MemSize - 1) |-> Garbage],
             FormatFrom(l.fmt, 1, l.args, 0, ZeroM, l.buffnull, l.buff_size) \o << NUL >>)

\* thread t is in a direct-print call on an instance that has a sink and,
\* after a failed creation, no valid mutex
PrintWithoutMutex(t) ==
    /\ pc[t] # "idle" /\ IS_PRINT_MODE(lwi[t])
    /\ lwobj[lwi[t].lwobj].out_fn # "NULL"
    /\ ~lwobj[lwi[t].lwobj].mutex.valid

\* the call of lwprintf_init_ex of this step returns 0 when its
\* lwprintf_sys_mutex_create failed, and leaves the mutex invalid
C11_InitStep ==
    (ninits' # ninits /\ api'.create = "failed") =>
      (api'.ret = 0 /\ ~lwobj'[api'.o].mutex.valid)

\* buffer calls on an instance without a valid mutex format as they always do
C11_BufferStillFormats ==
    \A t \in Threads :
      (pc[t] = "done" /\ BuffSession(t)
         /\ ~lwobj[lwi[t].lwobj].mutex.valid) =>
        (mem[t] = BufferResult(lwi[t]) /\ ret[t] = lwi[t].n_len)

C11_PrintDisabled ==
    \A t \in Threads :
      PrintWithoutMutex(t) =>
        /\ SinkCalls(lwi[t].lwobj, t) = {}
        /\ (pc[t] = "done" => ret[t] = 0)

\* C11 as stated: with OS support, when mutex creation fails inside init, init
\* returns 0 and every later direct print on the instance returns 0 without
\* invoking the sink, while buffer calls on it format normally.
C11_Original ==
    /\ [](cfg.os = 1 => (C11_PrintDisabled /\ C11_BufferStillFormats))
    /\ [][C11_InitStep]_vars

\* C11 amended: the same in the build with OS support and without manual
\* protect; the manual-protect build compiles the validation of the mutex out
\* of the print call.
C11_FailedCreateDisablesPrint ==
    /\ []((cfg.os = 1 /\ cfg.manual = 0) => (C11_PrintDisabled /\ C11_BufferStillFormats))
    /\ [][C11_InitStep]_vars

\* on an instance whose mutex creation failed, a print call has returned 0
\* and a buffer call has returned the byte it stored
C11_Witness ==
    /\ cfg.os = 1 /\ cfg.manual = 0
    /\ \E t \in Threads : \E u \in Threads \ {t} :
         /\ PrintWithoutMutex(t) /\ pc[t] = "done" /\ ret[t] = 0
         /\ pc[u] = "done" /\ BuffSession(u) /\ lwi[u].lwobj = lwi[t].lwobj
         /\ ret[u] > 0

\* C12: a call of init with a non-null sink on an instance whose mutex is
\* already valid installs the sink, creates no mutex and returns success; a
\* call with a NULL sink creates no mutex and returns success.
C12_Step ==
    ninits' # ninits =>
      /\ (lwobj'[api'.o].out_fn # "NULL" /\ lwobj[api'.o].mutex.valid) =>
           (api'.create = "none" /\ api'.ret = 1)
      /\ lwobj'[api'.o].out_fn = "NULL" =>
           (api'.create = "none" /\ api'.ret = 1)

C12_ReinitSucceeds ==
    [][C12_Step]_vars

\* the call of lwprintf_protect_ex or lwprintf_unprotect_ex of this step
\* returns 1 only when the instance has a sink and, for protect, a valid
\* mutex that the wait gave to the caller, for unprotect, a mutex the caller
\* held and the release gave back
C13_ProtectStep ==
    (api'.n # api.n /\ api'.ret = 1) =>
      /\ lwobj[api'.o].out_fn # "NULL"
      /\ api'.op = "protect" =>
           /\ lwobj[api'.o].mutex.valid
           /\ lwobj[api'.o].mutex.owner = NoOwner
           /\ lwobj'[api'.o].mutex.owner = api'.t
      /\ api'.op = "unprotect" =>
           /\ lwobj[api'.o].mutex.owner = api'.t
           /\ lwobj'[api'.o].mutex.owner = NoOwner

\* a step of a print or buffer call leaves every mutex as it is
C13_CallStep ==
    (api'.n = api.n /\ ninits' = ninits) => lwobj' = lwobj

C13_NoMutexInCall ==
    \A t \in Threads :
      IS_PRINT_MODE(lwi[t]) =>
        /\ g[t].valids = 0 /\ g[t].waits = 0 /\ g[t].failed = 0 /\ g[t].releases = 0
        /\ ~LocksOnEntry(lwi[t])

\* C13: in the manual-protect build a direct-print call neither waits on nor
\* releases the mutex, so that a print by the thread that holds the mutex
\* goes on; protect returns 1 only with a sink, a valid mutex and a
\* successful wait, unprotect only with a sink and a successful release.
C13_ManualProtect ==
    /\ [](cfg.manual = 1 => C13_NoMutexInCall)
    /\ [][cfg.manual = 1 => (C13_ProtectStep /\ C13_CallStep)]_vars

\* a thread has taken the mutex with protect, printed with the sink called,
\* and given the mutex back with unprotect, each returning success
C13_Witness ==
    /\ cfg.manual = 1
    /\ api.op = "unprotect" /\ api.ret = 1 /\ api.n = 2
    /\ pc[api.t] = "done" /\ IS_PRINT_MODE(lwi[api.t]) /\ ret[api.t] > 0
    /\ lwi[api.t].lwobj = api.o
    /\ g[api.t].held_by = api.t
    /\ SinkCalls(api.o, api.t) # {}

(***************************************************************************)
(* Directives and converters, under SpecConv                               *)
(***************************************************************************)
\* the bytes of a template that holds the directive d alone
Alone(d) ==
    FormatFrom(d.fmt, 1, d.args, 0, ZeroM, TRUE, 0)

\* C14: the bytes emitted for a template of two directives are the bytes the
\* first directive emits alone followed by the bytes the second emits alone:
\* nothing of the first directive is left in the format state of the second
C14_DirectiveStateReset ==
    (conv.done /\ conv.in.fam = "pair")
        => conv.out = Alone(conv.in.d1) \o Alone(conv.in.d2)

\* a directive with flags, a width and a length modifier has been followed
\* by a directive that has none of them
C14_Witness ==
    /\ conv.done /\ conv.in.fam = "pair"
    /\ conv.in.d1.fmt = Str(<< "%", "+", "0", "5", "d" >>)
    /\ conv.in.d2.fmt = Str(<< "%", "h", "h", "u" >>)
    /\ conv.out = Str(<< "+", "0", "0", "4", "2", "4", "4" >>)

\* the decimal digits of n >= 0, most significant first
RECURSIVE Decimal(_)
Decimal(n) ==
    IF n < 10 THEN << DigitOf(n) >> ELSE Decimal(n \div 10) \o << DigitOf(n % 10) >>

Magnitude(v) ==
    IF v < 0 THEN -v ELSE v

\* the sign character of the value v
SignChr(v) ==
    IF v < 0 THEN Chr("-") ELSE Chr("+")

\* the field of a signed directive: sign, digits and the fill of n bytes
SignedField(x, n) ==
    IF "-" \in x.flags
    THEN << SignChr(x.v) >> \o Decimal(Magnitude(x.v)) \o Rep(Chr(" "), n)
    ELSE IF "0" \in x.flags
    THEN << SignChr(x.v) >> \o Rep(Chr("0"), n) \o Decimal(Magnitude(x.v))
    ELSE Rep(Chr(" "), n) \o << SignChr(x.v) >> \o Decimal(Magnitude(x.v))

\* C15: a signed directive that has a sign character emits the sign first
\* and then the zero fill when the zero flag is set, the space padding and
\* then the sign right before the first digit when it is not, and with left
\* alignment the sign, the digits and trailing spaces up to the width
C15_SignPlacement ==
    (conv.done /\ conv.in.fam = "signed" /\ (conv.in.v < 0 \/ "+" \in conv.in.flags))
        => conv.out = SignedField(conv.in,
                                  conv.in.width - 1 - Len(Decimal(Magnitude(conv.in.v))))

\* a negative value zero-filled, right-aligned in a width larger than its digits
C15_Witness ==
    /\ conv.done /\ conv.in.fam = "signed"
    /\ conv.in.flags = {"0"} /\ conv.in.width = 6 /\ conv.in.v = -123
    /\ conv.out = Str(<< "-", "0", "0", "1", "2", "3" >>)

\* the value of the digit character c, -1 when c is no digit
DigitValue(c) ==
    IF c >= Chr("0") /\ c <= Chr("9") THEN c - Chr("0")
    ELSE IF c >= Chr("a") /\ c <= Chr("f") THEN c - Chr("a") + 10
    ELSE -1

\* the number the digits d denote in the given base
RECURSIVE ParseDigits(_, _)
ParseDigits(d, base) ==
    IF d = << >> THEN 0
    ELSE ParseDigits(SubSeq(d, 1, Len(d) - 1), base) * base + DigitValue(d[Len(d)])

\* base to the power n
RECURSIVE Power(_, _)
Power(base, n) ==
    IF n = 0 THEN 1 ELSE base * Power(base, n - 1)

\* C16: the integer converter emits "0" for zero and, for v > 0, digits of
\* the base with no leading zero that denote v; the divisor it builds is
\* the power of the base of the leading digit, which does not exceed v
C16_IntegerRoundTrip ==
    (conv.done /\ conv.in.fam = "int")
        => IF conv.in.v = 0
           THEN conv.out = << Chr("0") >>
           ELSE /\ conv.out # << >>
                /\ \A i \in 1..Len(conv.out) : DigitValue(conv.out[i]) \in 0..(conv.in.base - 1)
                /\ conv.out[1] # Chr("0")
                /\ ParseDigits(conv.out, conv.in.base) = conv.in.v
                /\ Divisor(conv.in.v, 1, conv.in.base, conv.in.bits)
                     = Power(conv.in.base, Len(conv.out) - 1)
                /\ Power(conv.in.base, Len(conv.out) - 1) <= conv.in.v

\* the largest value of the widest type has been converted in base 16
C16_Witness ==
    /\ conv.done /\ conv.in.fam = "int"
    /\ conv.in.bits = LongLongBits /\ conv.in.base = 16
    /\ conv.in.v = Pow2(LongLongBits) - 1
    /\ conv.out = Rep(Chr("f"), LongLongBits \div 4)

\* the digits of n >= 0 in the given base, most significant first
RECURSIVE InBase(_, _, _)
InBase(n, base, uc) ==
    IF n < base THEN << DigitChr(n, uc) >>
    ELSE InBase(n \div base, base, uc) \o << DigitChr(n % base, uc) >>

\* the text of the signed value n in base 10
SignedText(n) ==
    (IF n < 0 THEN << Chr("-") >> ELSE << >>) \o Decimal(Magnitude(n))

\* the width of char for hh, of short for h
NarrowBits(x) ==
    IF x.hs = 2 THEN CharBits ELSE ShortBits

\* the text of the argument of x narrowed to the width of its modifier
NarrowedText(x) ==
    IF x.type \in {Chr("d"), Chr("i")}
    THEN SignedText(ToSigned(x.v, NarrowBits(x)))
    ELSE InBase(ToUnsigned(x.v, NarrowBits(x)), BaseOf(x.type),
                IF IsUpper(x.type) THEN 1 ELSE 0)

\* C17: with hh or h the argument is narrowed to char or short before it is
\* converted, for d and i as for u, x, X, o, b, B
C17_NarrowedBeforeConversion ==
    (conv.done /\ conv.in.fam = "narrow") => conv.out = NarrowedText(conv.in)

\* the iteration of prv_format over the directive of the input x
DirectiveOf(x) ==
    Directive(x.fmt, 1, x.args, 0, ZeroM, TRUE, 0)

\* C18: every length modifier is consumed with its directive: the type
\* letter after it is dispatched to its converter, which pulls one argument
\* and emits the digits of the value, and the directive ends after the letter
C18_LengthConsumed ==
    (conv.done /\ conv.in.fam = "length")
        => /\ conv.out = InBase(conv.in.v, IF conv.in.type = Chr("x") THEN 16 ELSE 10, 0)
           /\ DirectiveOf(conv.in).ai = 1
           /\ DirectiveOf(conv.in).pos = Len(conv.in.fmt) + 1

\* the precision P of a g directive: 6 when omitted, 1 when given as 0, and
\* within the table of the powers of 10
EffectivePrecision(x) ==
    IF x.prec < 0 THEN LWPRINTF_CFG_FLOAT_DEFAULT_PRECISION
    ELSE IF x.prec = 0 THEN 1
    ELSE Min(x.prec, PowersOf10Size - 1)

\* the text without the spaces in front of it
RECURSIVE Unpadded(_)
Unpadded(t) ==
    IF t # << >> /\ t[1] = Chr(" ") THEN Unpadded(SubSeq(t, 2, Len(t))) ELSE t

RECURSIVE StripZeros(_)
StripZeros(t) ==
    IF t # << >> /\ t[Len(t)] = Chr("0") THEN StripZeros(SubSeq(t, 1, Len(t) - 1)) ELSE t

StripPoint(t) ==
    IF t # << >> /\ t[Len(t)] = Chr(".") THEN SubSeq(t, 1, Len(t) - 1) ELSE t

\* a number without the trailing zeros of its fraction, and without the
\* decimal point when no fraction digit remains
Trimmed(t) ==
    IF \E i \in 1..Len(t) : t[i] = Chr(".") THEN StripPoint(StripZeros(t)) ELSE t

\* the index of the exponent letter of a text in exponent style
ExpPos(t) ==
    CHOOSE i \in 1..Len(t) : t[i] \in {Chr("e"), Chr("E")}

TrimmedExp(t) ==
    Trimmed(SubSeq(t, 1, ExpPos(t) - 1)) \o SubSeq(t, ExpPos(t), Len(t))

\* the number of x in the style f or F at the precision n
FixedStyle(x, n) ==
    FormatFrom(<< Chr("%"), Chr("."), Chr("*"), IF IsUpper(x.type) THEN Chr("F") ELSE Chr("f") >>,
               1, << n, x.num >>, 0, ZeroM, TRUE, 0)

\* the number of x in the style e or E at the precision n
ExpStyle(x, n) ==
    FormatFrom(<< Chr("%"), Chr("."), Chr("*"), IF IsUpper(x.type) THEN Chr("E") ELSE Chr("e") >>,
               1, << n, x.num >>, 0, ZeroM, TRUE, 0)

\* the text of g and G for the precision p and the exponent X of the value
GText(x, p, X) ==
    IF -4 <= X /\ X < p
    THEN Trimmed(FixedStyle(x, p - X - 1))
    ELSE TrimmedExp(ExpStyle(x, p - 1))

CornerText(x) ==
    IF x.num.cls = "nan"
    THEN IF IsUpper(x.type) THEN Str(<< "N", "A", "N" >>) ELSE Str(<< "n", "a", "n" >>)
    ELSE (IF x.num.neg THEN << Chr("-") >> ELSE IF x.plus = 1 THEN << Chr("+") >> ELSE << >>)
         \o (IF IsUpper(x.type) THEN Str(<< "I", "N", "F" >>) ELSE Str(<< "i", "n", "f" >>))

\* C20: NaN is emitted as nan or NAN, a value below -DBL_MAX as -inf or
\* -INF, a value above DBL_MAX as inf or INF with one + in front of it when
\* the plus flag is set and with no sign character otherwise
C20_CornerCases ==
    (conv.done /\ conv.in.fam = "float"
       /\ (conv.in.num.cls = "inf" \/ (conv.in.num.cls = "nan" /\ conv.in.plus = 0)))
        => Unpadded(conv.out) = CornerText(conv.in)

\* the base of the type letter of an alternate-form input
AltBase(x) ==
    IF x.type \in {Chr("x"), Chr("X")} THEN 16 ELSE IF x.type = Chr("o") THEN 8 ELSE 2

\* the prefix of the type letter, in the case of the letter
PrefixOf(x) ==
    IF x.type = Chr("o") THEN << Chr("0") >> ELSE << Chr("0"), x.type >>

\* the sequence s without its spaces
NoSpaces(s) ==
    SelectSeq(s, LAMBDA c : c # Chr(" "))

\* the field of a zero value: "0" with the fill of its flags up to the width
ZeroField(x) ==
    IF "-" \in x.flags THEN << Chr("0") >> \o Rep(Chr(" "), x.width - 1)
    ELSE IF "0" \in x.flags THEN Rep(Chr("0"), x.width - 1) \o << Chr("0") >>
    ELSE Rep(Chr(" "), x.width - 1) \o << Chr("0") >>

\* C21: with the alternate-form flag in base 2, 8 or 16 a zero value has no
\* prefix and its width is not reduced, so the single "0" is padded to the
\* whole width; a value that is not zero has the prefix 0x, 0X, 0, 0b or 0B
\* in the case of the type letter, followed by its digits
C21_AltFormZero ==
    (conv.done /\ conv.in.fam = "alt")
        => IF conv.in.v = 0
           THEN conv.out = ZeroField(conv.in)
           ELSE /\ Len(conv.out) >= conv.in.width
                /\ NoSpaces(conv.out)
                     = PrefixOf(conv.in)
                       \o (IF "0" \in conv.in.flags /\ "-" \notin conv.in.flags
                           THEN Rep(Chr("0"), Len(conv.out) - Len(PrefixOf(conv.in))
                                              - Len(InBase(conv.in.v, AltBase(conv.in), 0)))
                           ELSE << >>)
                       \o InBase(conv.in.v, AltBase(conv.in),
                                 IF IsUpper(conv.in.type) THEN 1 ELSE 0)

\* %#2x of zero has given a space and "0"
C21_Witness ==
    /\ conv.done /\ conv.in.fam = "alt"
    /\ conv.in.flags = {} /\ conv.in.width = 2 /\ conv.in.type = Chr("x") /\ conv.in.v = 0
    /\ conv.out = Str(<< " ", "0" >>)

\* the prefix and the digits of an alternate-form input
AltContent(x) ==
    PrefixOf(x) \o InBase(x.v, AltBase(x), IF IsUpper(x.type) THEN 1 ELSE 0)

\* C22: without the zero flag and with right alignment the space padding
\* comes first and the alternate-form prefix follows it, right before the
\* digits, for every width larger than the content
C22_PaddingBeforePrefix ==
    (conv.done /\ conv.in.fam = "alt" /\ conv.in.flags = {} /\ conv.in.v # 0
       /\ conv.in.width > Len(AltContent(conv.in)))
        => conv.out = Rep(Chr(" "), conv.in.width - Len(AltContent(conv.in)))
                      \o AltContent(conv.in)

\* the bytes of the signed directive of x with the flags fs
SignedOut(x, fs) ==
    Alone([fmt |-> << Chr("%") >> \o FlagText(fs)
                     \o (IF x.width > 0 THEN << DigitOf(x.width) >> ELSE << >>)
                     \o << Chr("d") >>,
           args |-> << x.v >>])

\* the space flag of the signed directive x has put a space of its own in
\* front of the bytes the directive emits without the flag
SpaceEmitted(x) ==
    /\ " " \in x.flags
    /\ conv.out # SignedOut(x, x.flags \ {" "})

\* a sign character is emitted for x
HasSign(x) ==
    x.v < 0 \/ "+" \in x.flags

\* C23, as stated: the space flag emits a leading space only when no sign
\* character is emitted and only if the content alone does not already meet
\* or exceed the requested width
C23_Original ==
    (conv.done /\ conv.in.fam = "signed" /\ SpaceEmitted(conv.in))
        => (~HasSign(conv.in) /\ Len(Decimal(Magnitude(conv.in.v))) < conv.in.width)

\* C23 amended: the space flag emits a leading space exactly when no sign
\* character is emitted and either the zero flag is given or the content
\* alone meets or exceeds the requested width; the space is the first byte
\* of the field and the rest is the field without the flag
C23_SpaceFlag ==
    (conv.done /\ conv.in.fam = "signed" /\ " " \in conv.in.flags)
        => IF ~HasSign(conv.in)
              /\ ("0" \in conv.in.flags
                    \/ Len(Decimal(Magnitude(conv.in.v))) >= conv.in.width)
           THEN conv.out = << Chr(" ") >> \o SignedOut(conv.in, conv.in.flags \ {" "})
           ELSE conv.out = SignedOut(conv.in, conv.in.flags \ {" "})

\* "% 3d" of 4321 has given a space and the four digits, and no more
C23_Witness ==
    /\ conv.done /\ conv.in.fam = "signed"
    /\ conv.in.flags = {" "} /\ conv.in.width = 3 /\ conv.in.v = 4321
    /\ conv.out = Str(<< " ", "4", "3", "2", "1" >>)

\* C24: the content width handed to the padding emitter for f and e is the
\* number of characters emitted for the value, also with the default
\* precision: a field whose width is at least that number has exactly the
\* width in bytes, and a wider content is not padded
C24_FloatContentWidth ==
    (conv.done /\ conv.in.fam = "fixed")
        => Len(conv.out) = (IF conv.in.w > Len(Unpadded(conv.out))
                            THEN conv.in.w ELSE Len(Unpadded(conv.out)))

\* the exponent field of the exponent X for the type letter c: the letter,
\* the sign and the digits of the magnitude, two of them at least
ExponentField(c, X) ==
    << c, IF X >= 0 THEN Chr("+") ELSE Chr("-") >>
    \o (IF Magnitude(X) < 10 THEN << Chr("0") >> ELSE << >>)
    \o Decimal(Magnitude(X))

\* C25: the exponent field of e and E is the letter in the case of the type,
\* the sign of the exponent X and the decimal digits of its magnitude: two
\* digits when it is below 100, its three digits from 100 to 999
C25_ExponentField ==
    (conv.done /\ conv.in.fam = "fixed" /\ conv.in.type \in {Chr("e"), Chr("E")})
        => /\ \E i \in 1..Len(conv.out) : conv.out[i] = conv.in.type
           /\ SubSeq(conv.out, ExpPos(conv.out), Len(conv.out))
                = ExponentField(conv.in.type, ExpOf(conv.in.num))

\* the pair of the exact split x rounded half-up at precision p
HalfUp(x, p) ==
    IF x.rem2 >= x.unit
    THEN IF x.decimal_part + 1 >= Pow10(p)
         THEN << x.integer_part + 1, 0 >>
         ELSE << x.integer_part, x.decimal_part + 1 >>
    ELSE << x.integer_part, x.decimal_part >>

\* C26: the split of a magnitude at a precision p within the table is a
\* pair of an integer part and a fraction with 0 <= fraction < 10^p, and the
\* pair is the magnitude rounded half-up to p decimals, with the carry into
\* the integer part when the fraction reaches 10^p; for a double that
\* stands 0.000000000000005 below a tie either neighbour is a rounding
C26_SplitRoundsHalfUp ==
    (conv.done /\ conv.in.fam = "split")
        => /\ conv.out[2] >= 0 /\ conv.out[2] < Pow10(conv.in.p)
           /\ \/ conv.out = HalfUp(ExactSplit(conv.in.num, conv.in.p), conv.in.p)
              \/ /\ conv.in.num.bias < 0
                 /\ conv.out = << ExactSplit(conv.in.num, conv.in.p).integer_part,
                                  ExactSplit(conv.in.num, conv.in.p).decimal_part >>

\* C27: for every value of a signed type, the most negative one included,
\* the signed converter completes without a signed overflow and emits the
\* digits of the magnitude, after a minus sign when the value is negative
C27_SignedMagnitude ==
    (conv.done /\ conv.in.fam = "sint")
        => /\ ~conv.trap
           /\ conv.out = SignedText(conv.in.v)

\* C28: every index powers_of_10 is read with lies within the table, for a
\* precision in the template, a digit string of any length included, for a
\* precision passed for '*' and for the precision of the fixed style of g
C28_TableIndexInRange ==
    (conv.done /\ conv.in.fam = "prec")
        => conv.reads \subseteq 0..(PowersOf10Size - 1)

\* the text t of a number without the spaces and the minus sign in front
Unsigned(t) ==
    IF Unpadded(t) # << >> /\ Unpadded(t)[1] = Chr("-")
    THEN SubSeq(Unpadded(t), 2, Len(Unpadded(t)))
    ELSE Unpadded(t)

\* C29: e and E of a finite magnitude that is not zero emit a mantissa with
\* exactly one integer digit, from 1 to 9, followed by the decimal point or
\* by the exponent, also when the rounding at the precision carries into
\* the integer part
C29_OneIntegerDigit ==
    (conv.done /\ conv.in.fam = "fixed" /\ conv.in.type \in {Chr("e"), Chr("E")}
       /\ conv.in.num.mant # 0)
        => /\ Len(Unsigned(conv.out)) >= 2
           /\ Unsigned(conv.out)[1] \in (Chr("1"))..(Chr("9"))
           /\ Unsigned(conv.out)[2] \in {Chr("."), conv.in.type}

\* C30: every iteration of the interpreter loop consumes at least one byte
\* of the template, and the loop reads no byte beyond the terminating null,
\* also when the template ends inside a directive
C30_NoReadBeyondNull ==
    (conv.done /\ conv.in.fam = "tail")
        => /\ \A i \in 1..(Len(conv.out) - 1) : conv.out[i + 1] > conv.out[i]
           /\ \A i \in 1..Len(conv.out) : conv.out[i] <= Len(conv.in.fmt) + 1

=============================================================================
